---- MODULE Spec2Model ----
(***************************************************************************)
(* GitHub Activity Report Generator: the adaptive fetch, the multi-source  *)
(* merge of the orchestrator, the PR activity probe and the aggregator's   *)
(* date filters, as state machines over small host responses.              *)
(***************************************************************************)
EXTENDS Integers, Naturals, Sequences, FiniteSets, TLC

\* ------------------------------------------------------------------ bounds
\* last day ordinal a fetch range may end on
MaxEnd == 8
\* largest high_activity_threshold tried
MaxThreshold == 2
\* records the host returns over one fetch_period
MaxRecords == 2
\* host calls that fail over one fetch_period
MaxFailures == 1

\* items one probe sub-resource may return
MaxProbeItems == 2
\* last day ordinal a host timestamp may fall on
MaxDay == 3

\* records handed to one DataAggregator.aggregate call, over all kinds
MaxAggRecords == 2

\* pull requests of the user the host knows
MaxPrs == 2

\* items one /search/commits answer may hold
MaxSearchCommits == 2
\* pull requests in the authored-PR set whose commits are fetched
MaxCommitPrs == 2
\* commits the host serves for pull requests over one fetch_commits_from_prs
MaxPrCommits == 2

\* records one AggregatedData holds when summarised, over all kinds
MaxSummaryRecords == 3

\* pull requests passed to calculate_pr_metrics
MaxMetricPrs == 2
\* reviews passed to calculate_pr_metrics, over both of its review lists
MaxMetricReviews == 2

\* reviews passed to calculate_review_metrics
MaxReviewMetricReviews == 2

\* commits passed to calculate_engagement_metrics
MaxEngagementCommits == 1
\* comments passed to calculate_engagement_metrics
MaxEngagementComments == 3

\* records in each list passed to calculate_all
MaxMetricRecords == 1

\* records in each list the collaboration score is taken of
MaxScoreRecords == 3

\* calls of api and search a client gets
MaxRequests == 3
\* half seconds a caller spends between the calls
MaxIdle == 2

\* the largest month or quarter number passed to get_period_range
MaxPeriodValue == 14

\* records in a list handed to _deduplicate
MaxDedupRecords == 3

\* events in the feed of the user
MaxFeedEvents == 2
\* the last day of a period events are fetched for
MaxEventsEnd == 8

\* reviews on one PR of the host
MaxPrReviews == 2

\* comments of the user the host knows
MaxComments == 2
\* events one events fetch may return
MaxEvents == 2

\* ------------------------------------------------------- python-like values
\* Python's None, and a key that is absent from a host JSON object
None == "<None>"
Absent == "<absent>"

\* dict.get(key, default) on a host object whose field may be absent
Get(v, default) == IF v = Absent THEN default ELSE v

\* a field of a host object that holds a structured value: present or missing
Some(v) == <<v>>
Missing == <<>>

\* dict.get(key, default) on such a field
GetOpt(o, default) == IF o = Missing THEN default ELSE o[1]

\* truthiness of a str | None value
Truthy(v) == v # None /\ v # "" /\ v # Absent

\* Python's `a or b`
Or(a, b) == IF Truthy(a) THEN a ELSE b

Min(a, b) == IF a <= b THEN a ELSE b

\* ------------------------------------------------------------------ dates
\* date.isoformat() of a day ordinal, as the string's year, month and day
\* fields; the ordinals run over the turn of the year, 1 being 2024-12-30
IsoFormat(d) == IF d <= 2 THEN <<2024, 12, 29 + d>> ELSE <<2025, 1, d - 2>>

\* the host's ISO-8601 timestamp of a moment on day ordinal d
IsoTimestamp(d) == IsoFormat(d) \o <<"T12:00:00Z">>

\* the empty string
EmptyStr == <<>>

\* None in a field that otherwise holds a timestamp string
NoneValue == <<None>>

\* truthiness of such a field's value (`if date_value:`)
TruthyValue(v) == v # NoneValue /\ v # EmptyStr

\* dict.get(key, default) on a record modelled with exactly its keys
DGet(r, key, default) == IF key \in DOMAIN r THEN r[key] ELSE default

\* ts[:10] of a timestamp string, or of ""
Prefix10(ts) == SubSeq(ts, 1, IF Len(ts) < 3 THEN Len(ts) ELSE 3)

RECURSIVE StrLeq(_, _)
\* Python's <= on two strings (lexicographic; "" is smallest)
StrLeq(a, b) ==
    IF a = <<>> THEN TRUE
    ELSE IF b = <<>> THEN FALSE
    ELSE \/ Head(a) < Head(b)
         \/ Head(a) = Head(b) /\ StrLeq(Tail(a), Tail(b))

\* start_str <= x <= end_str
StrBetween(start_str, x, end_str) == StrLeq(start_str, x) /\ StrLeq(x, end_str)

RECURSIVE Concat(_)
\* list.extend over a sequence of lists
Concat(ss) == IF ss = <<>> THEN <<>> ELSE Head(ss) \o Concat(Tail(ss))

\* the subsequence of s at the positions in idx, in order
RECURSIVE Pick(_, _, _)
Pick(s, idx, i) ==
    IF i > Len(s) THEN <<>>
    ELSE (IF i \in idx THEN <<s[i]>> ELSE <<>>) \o Pick(s, idx, i + 1)

\* ---------------------------------------------------------------- fetcher
VARIABLES
    f_start,        \* fetch_period's start_date (day ordinal)
    f_end,          \* fetch_period's end_date
    f_threshold,    \* self.high_activity_threshold
    f_pc,           \* "week" | "days" | "done" | "raised"
    f_cur,          \* _iter_weeks' current
    f_day,          \* _fetch_week_by_days' current
    week_events,    \* the weekly result of the window being fetched
    daily_events,   \* _fetch_week_by_days' daily_events
    all_events,     \* fetch_period's all_events
    f_result,       \* what fetch_period returned
    f_log,          \* every _fetch_range call so far: window, mode, range, response
    f_windows       \* every finished window: range, weekly result, contribution

fetchVars == <<f_start, f_end, f_threshold, f_pc, f_cur, f_day, week_events,
               daily_events, all_events, f_result, f_log, f_windows>>

\* timedelta(days=6): a window is 7 days
WeekSpan == 6

\* gh.api raising (network, auth, rate limit, malformed JSON)
HostError == [ok |-> FALSE, items |-> <<>>]

\* gh.api returning a search result with these items
HostOk(items) == [ok |-> TRUE, items |-> items]

\* the shapes of a search item's identifying fields
ItemShapes ==
    { [sha |-> s, html_url |-> u] : s \in {Absent, "a"}, u \in {Absent, "u"} }

\* CommitsFetcher._fetch_range's transform of one search item
CommitOfItem(item) ==
    [ sha |-> Get(item.sha, None),
      url |-> Get(item.html_url, ""),
      message |-> item.message ]

RECURSIVE TransformItems(_)
TransformItems(items) ==
    IF items = <<>> THEN <<>>
    ELSE <<CommitOfItem(Head(items))>> \o TransformItems(Tail(items))

\* a _fetch_range that lets the host error escape
FetchRangeNoCatch(resp) ==
    IF resp = HostError
    THEN [raised |-> TRUE, events |-> <<>>]
    ELSE [raised |-> FALSE, events |-> TransformItems(resp.items)]

\* CommitsFetcher._fetch_range: the host call is wrapped in try/except and a
\* failure returns []
FetchRange(resp) ==
    IF resp = HostError
    THEN [raised |-> FALSE, events |-> <<>>]
    ELSE [raised |-> FALSE, events |-> TransformItems(resp.items)]

\* CommitsFetcher._get_event_id
GetEventId(event) == Or(event.sha, event.url)

RECURSIVE DedupLoop(_, _, _)
DedupLoop(events, seen, unique) ==
    IF events = <<>> THEN unique
    ELSE LET event == Head(events)
             event_id == GetEventId(event)
         IN  IF Truthy(event_id) /\ event_id \notin seen
             THEN DedupLoop(Tail(events), seen \cup {event_id}, Append(unique, event))
             ELSE IF ~Truthy(event_id)
             THEN DedupLoop(Tail(events), seen, Append(unique, event))
             ELSE DedupLoop(Tail(events), seen, unique)

\* a _deduplicate that drops the records it cannot key
DeduplicateDropsKeyless(events) ==
    LET keyed == SelectSeq(events, LAMBDA e : Truthy(GetEventId(e)))
    IN  DedupLoop(keyed, {}, <<>>)

\* BaseFetcher._deduplicate
Deduplicate(events) == DedupLoop(events, {}, <<>>)

\* records the host has returned so far in this fetch_period
Returned == Len(Concat([i \in 1..Len(f_log) |->
                f_log[i].resp.items]))

Failures == Cardinality({i \in 1..Len(f_log) : f_log[i].resp = HostError})

\* the responses the host may give to the next call: an error, or up to two
\* items, each stamped with a fresh message
Responses ==
    (IF Failures < MaxFailures THEN {HostError} ELSE {})
    \cup {HostOk(<<>>)}
    \cup (IF Returned + 1 <= MaxRecords
          THEN { HostOk(<<[sha |-> x.sha, html_url |-> x.html_url,
                           message |-> Returned + 1]>>) : x \in ItemShapes }
          ELSE {})
    \cup (IF Returned + 2 <= MaxRecords
          THEN { HostOk(<< [sha |-> x.sha, html_url |-> x.html_url,
                             message |-> Returned + 1],
                            [sha |-> y.sha, html_url |-> y.html_url,
                             message |-> Returned + 2] >>) :
                    x \in ItemShapes, y \in ItemShapes }
          ELSE {})

FetchInit ==
    /\ f_start = 1
    /\ f_end \in 0..MaxEnd
    /\ f_threshold \in 1..MaxThreshold
    /\ f_pc = "week"
    /\ f_cur = f_start
    /\ f_day = 0
    /\ week_events = <<>>
    /\ daily_events = <<>>
    /\ all_events = <<>>
    /\ f_result = <<>>
    /\ f_log = <<>>
    /\ f_windows = <<>>

\* a week_end that is not cut at the end of the range
WeekEndUntruncated(current) == current + WeekSpan

\* _iter_weeks' week_end for the window starting at current
WeekEnd(current) == Min(current + WeekSpan, f_end)

\* a test that lets a window holding exactly the threshold pass as quiet
HighActivityAbove(events) == Len(events) > f_threshold

\* fetch_period: len(week_events) >= self.high_activity_threshold
HighActivity(events) == Len(events) >= f_threshold

\* what a high-activity window adds to all_events when the weekly result is kept
WindowEventsMerged(weekly, daily) == weekly \o daily

\* fetch_period: week_events = self._fetch_week_by_days(...) replaces the weekly
\* result before all_events.extend(week_events)
WindowEvents(weekly, daily) == daily

\* one turn of fetch_period's loop: the weekly _fetch_range of the next window
FetchWeek ==
    /\ f_pc = "week"
    /\ f_cur <= f_end
    /\ \E resp \in Responses :
        LET out == FetchRange(resp)
            entry == [win |-> Len(f_windows) + 1, mode |-> "week",
                      start |-> f_cur, end |-> WeekEnd(f_cur), resp |-> resp,
                      events |-> out.events]
        IN  /\ f_log' = Append(f_log, entry)
            /\ IF out.raised
               THEN /\ f_pc' = "raised"
                    /\ UNCHANGED <<f_cur, f_day, week_events, daily_events,
                                   all_events, f_windows>>
               ELSE IF HighActivity(out.events)
               THEN /\ f_pc' = "days"
                    /\ week_events' = out.events
                    /\ f_day' = f_cur
                    /\ daily_events' = <<>>
                    /\ UNCHANGED <<f_cur, all_events, f_windows>>
               ELSE /\ all_events' = all_events \o out.events
                    /\ f_windows' = Append(f_windows,
                          [start |-> f_cur, end |-> WeekEnd(f_cur),
                           weekly |-> out.events, contrib |-> out.events])
                    /\ f_cur' = WeekEnd(f_cur) + 1
                    /\ week_events' = out.events
                    /\ UNCHANGED <<f_pc, f_day, daily_events>>
    /\ UNCHANGED <<f_start, f_end, f_threshold, f_result>>

\* one turn of _fetch_week_by_days' loop; after the last day the window's
\* events are appended to all_events and the week loop goes on
FetchDay ==
    /\ f_pc = "days"
    /\ f_day <= WeekEnd(f_cur)
    /\ \E resp \in Responses :
        LET out == FetchRange(resp)
            entry == [win |-> Len(f_windows) + 1, mode |-> "day",
                      start |-> f_day, end |-> f_day, resp |-> resp,
                      events |-> out.events]
            daily == daily_events \o out.events
        IN  /\ f_log' = Append(f_log, entry)
            /\ IF out.raised
               THEN /\ f_pc' = "raised"
                    /\ UNCHANGED <<f_cur, f_day, week_events, daily_events,
                                   all_events, f_windows>>
               ELSE IF f_day + 1 <= WeekEnd(f_cur)
               THEN /\ daily_events' = daily
                    /\ f_day' = f_day + 1
                    /\ UNCHANGED <<f_pc, f_cur, week_events, all_events, f_windows>>
               ELSE /\ daily_events' = daily
                    /\ f_day' = f_day + 1
                    /\ all_events' = all_events \o WindowEvents(week_events, daily)
                    /\ f_windows' = Append(f_windows,
                          [start |-> f_cur, end |-> WeekEnd(f_cur),
                           weekly |-> week_events,
                           contrib |-> WindowEvents(week_events, daily)])
                    /\ f_cur' = WeekEnd(f_cur) + 1
                    /\ f_pc' = "week"
                    /\ UNCHANGED week_events
    /\ UNCHANGED <<f_start, f_end, f_threshold, f_result>>

\* the week loop is exhausted: return self._deduplicate(all_events)
FetchReturn ==
    /\ f_pc = "week"
    /\ f_cur > f_end
    /\ f_result' = Deduplicate(all_events)
    /\ f_pc' = "done"
    /\ UNCHANGED <<f_start, f_end, f_threshold, f_cur, f_day, week_events,
                   daily_events, all_events, f_log, f_windows>>

\* ------------------------------------------------- fetcher: the claims
\* the daily _fetch_range calls made for window k, in call order
DayCalls(k) == SelectSeq(f_log, LAMBDA c : c.win = k /\ c.mode = "day")

\* the weekly _fetch_range calls, in call order
WeekCalls == SelectSeq(f_log, LAMBDA c : c.mode = "week")

\* C1: every finished window whose weekly result had at least
\* high_activity_threshold records was re-fetched with exactly one
\* _fetch_range(day, day) call per day of the window (7 for a full window), and
\* what the window added to all_events is the concatenation of the daily
\* results alone, the weekly result being discarded.
C1_HighActivityRefetchedByDays ==
    /\ \A k \in 1..Len(f_windows) :
          LET w == f_windows[k]
              dc == DayCalls(k)
          IN  Len(w.weekly) >= f_threshold =>
                /\ Len(dc) = w.end - w.start + 1
                /\ (w.end - w.start = WeekSpan => Len(dc) = 7)
                /\ \A i \in 1..Len(dc) :
                      dc[i].start = w.start + i - 1 /\ dc[i].end = w.start + i - 1
                /\ w.contrib = Concat([i \in 1..Len(dc) |-> dc[i].events])
    /\ all_events = Concat([k \in 1..Len(f_windows) |-> f_windows[k].contrib])

\* a full window went over the threshold, its days returned something, and the
\* fetch finished
C1_Witness ==
    /\ f_pc = "done"
    /\ \E k \in 1..Len(f_windows) :
          /\ Len(f_windows[k].weekly) >= f_threshold
          /\ f_windows[k].end - f_windows[k].start = WeekSpan
          /\ f_windows[k].contrib # <<>>
          /\ f_windows[k].contrib # f_windows[k].weekly

\* the positions a first-occurrence deduplication keeps: a record without a key,
\* or the first record carrying its key
FirstOccurrences(s) ==
    { i \in 1..Len(s) :
        \/ ~Truthy(GetEventId(s[i]))
        \/ \A j \in 1..(i - 1) : GetEventId(s[j]) # GetEventId(s[i]) }

\* C2: the list fetch_period returns holds no two records with the same
\* non-empty unique key; of the records sharing a key the first in
\* concatenation order is kept, every record without a key is kept, and the
\* kept records keep their concatenation order.
C2_FetchPeriodDeduplicated ==
    f_pc = "done" =>
        /\ f_result = Pick(all_events, FirstOccurrences(all_events), 1)
        /\ \A i, j \in 1..Len(f_result) :
              (i # j /\ Truthy(GetEventId(f_result[i]))) =>
                  GetEventId(f_result[i]) # GetEventId(f_result[j])

\* fetch_period returned after dropping a later record that repeated a key
C2_Witness ==
    /\ f_pc = "done"
    /\ Len(f_result) < Len(all_events)
    /\ f_result # <<>>

\* the windows _iter_weeks yields for [f_start, f_end], by arithmetic
NumWindows == IF f_end < f_start THEN 0 ELSE ((f_end - f_start) \div 7) + 1

\* C4: a failed host call inside _fetch_range contributes no record for its
\* sub-range, fetch_period never raises, and every window of the range is
\* still fetched and what the other calls returned is in all_events.
C4_HostFailureIsEmptyResult ==
    /\ f_pc # "raised"
    /\ \A i \in 1..Len(f_log) : ~f_log[i].resp.ok => f_log[i].events = <<>>
    /\ f_pc = "done" =>
        /\ Len(WeekCalls) = NumWindows
        /\ \A k \in 1..NumWindows :
              /\ WeekCalls[k].start = f_start + 7 * (k - 1)
              /\ WeekCalls[k].end = Min(f_start + 7 * k - 1, f_end)
        /\ all_events = Concat([i \in 1..Len(f_log) |->
              IF f_log[i].mode = "week" /\ Len(f_log[i].resp.items) >= f_threshold
              THEN <<>>
              ELSE TransformItems(f_log[i].resp.items)])

\* a call failed in one window, a later window returned records, and the fetch
\* finished with them
C4_Witness ==
    /\ f_pc = "done"
    /\ f_result # <<>>
    /\ \E i, j \in 1..Len(f_log) :
          /\ i < j
          /\ ~f_log[i].resp.ok
          /\ f_log[j].win > f_log[i].win
          /\ f_log[j].events # <<>>
          /\ f_windows[f_log[j].win].contrib # <<>>

\* ------------------------------------------------------ PR activity probe
VARIABLES
    p_start,    \* _check_pr_activity_in_period's start (day ordinal)
    p_end,      \* its end
    p_pc,       \* "reviews" | "comments" | "commits" | "done" | "raised"
    p_result,   \* the value returned
    p_log       \* the host's answer to each probe made so far

probeVars == <<p_start, p_end, p_pc, p_result, p_log>>

\* what gh.api may answer to one probe: an error, a JSON object instead of a
\* list, or a list of items whose timestamp is absent or falls on some day
ProbeDays == 0..MaxDay

\* the timestamp field of a probed item: missing (day 0) or a moment of day d
ProbeTimestamp(d) == IF d = 0 THEN Missing ELSE Some(IsoTimestamp(d))

ProbeLists == UNION { [1..n -> ProbeDays] : n \in 0..MaxProbeItems }

ProbeResponses ==
    {[kind |-> "error", days |-> <<>>], [kind |-> "object", days |-> <<>>]}
    \cup { [kind |-> "list", days |-> l] : l \in ProbeLists }

\* review.get("submitted_at", "")[:10] and comment.get("created_at", "")[:10]
\* of an item whose timestamp is absent or on day d
FieldDate(d) == Prefix10(GetOpt(ProbeTimestamp(d), EmptyStr))

\* commit.get("commit", {}).get("committer", {}).get("date", "")[:10]
CommitterDate(d) ==
    LET commit == IF d = 0 THEN Missing
                  ELSE Some([committer |-> Some([date |-> ProbeTimestamp(d)])])
        commit_data == GetOpt(commit, [committer |-> Missing])
        committer == GetOpt(commit_data.committer, [date |-> Missing])
    IN  Prefix10(GetOpt(committer.date, EmptyStr))

\* a probe whose failure ends the check with False
ProbeStepAbortsOnError(resp, dates) ==
    IF resp.kind = "error" THEN "abort"
    ELSE IF resp.kind = "list"
            /\ \E i \in 1..Len(dates) :
                  StrBetween(IsoFormat(p_start), dates[i], IsoFormat(p_end))
    THEN "found"
    ELSE "next"

\* one try block of _check_pr_activity_in_period: an exception is swallowed,
\* a non-list answer is skipped, an item dated within the period returns True
ProbeStep(resp, dates) ==
    IF resp.kind = "error" THEN "next"
    ELSE IF resp.kind = "list"
            /\ \E i \in 1..Len(dates) :
                  StrBetween(IsoFormat(p_start), dates[i], IsoFormat(p_end))
    THEN "found"
    ELSE "next"

ProbeInit ==
    /\ p_start = 2
    /\ p_end \in {2, 3}
    /\ p_pc = "reviews"
    /\ p_result = FALSE
    /\ p_log = <<>>

\* the outcome of one probe: return True, return False or go on to `then`
ProbeGoes(step, then) ==
    /\ p_pc' = IF step = "found" \/ step = "abort" \/ then = "done"
               THEN "done" ELSE then
    /\ p_result' = (step = "found")

\* gh.api(.../pulls/{n}/reviews)
ProbeReviews ==
    /\ p_pc = "reviews"
    /\ \E resp \in ProbeResponses :
          /\ p_log' = Append(p_log, resp)
          /\ ProbeGoes(ProbeStep(resp, [i \in 1..Len(resp.days) |->
                                            FieldDate(resp.days[i])]), "comments")
    /\ UNCHANGED <<p_start, p_end>>

\* gh.api(.../issues/{n}/comments)
ProbeComments ==
    /\ p_pc = "comments"
    /\ \E resp \in ProbeResponses :
          /\ p_log' = Append(p_log, resp)
          /\ ProbeGoes(ProbeStep(resp, [i \in 1..Len(resp.days) |->
                                            FieldDate(resp.days[i])]), "commits")
    /\ UNCHANGED <<p_start, p_end>>

\* gh.api(.../pulls/{n}/commits), then return False
ProbeCommits ==
    /\ p_pc = "commits"
    /\ \E resp \in ProbeResponses :
          /\ p_log' = Append(p_log, resp)
          /\ ProbeGoes(ProbeStep(resp, [i \in 1..Len(resp.days) |->
                                            CommitterDate(resp.days[i])]), "done")
    /\ UNCHANGED <<p_start, p_end>>

\* the probe is not running
ProbeIdle ==
    /\ p_start = 0
    /\ p_end = 0
    /\ p_pc = "idle"
    /\ p_result = FALSE
    /\ p_log = <<>>

\* ---------------------------------------------- PR activity probe: the claim
\* a probe answered with a list holding an item dated within [p_start, p_end]
HasEvidence(resp) ==
    /\ resp.kind = "list"
    /\ \E i \in 1..Len(resp.days) :
          /\ resp.days[i] # 0
          /\ p_start <= resp.days[i]
          /\ resp.days[i] <= p_end

VARIABLES
    a_start,    \* DataAggregator.start_date (day ordinal)
    a_end,      \* DataAggregator.end_date
    a_pc,       \* "input" | "done"
    a_desc,     \* per kind, what each supplied record is: its day and flag codes
    a_in,       \* per kind, the list passed to aggregate()
    a_out,      \* per kind, the list of the AggregatedData returned
    a_repositories  \* AggregatedData.repositories

aggVars == <<a_start, a_end, a_pc, a_desc, a_in, a_out, a_repositories>>

\* aggregate()'s list arguments, in the order it filters them
Kinds == <<"commits", "pull_requests", "issues", "reviews", "comments">>

\* the date field aggregate() passes to _filter_by_date for each kind
DateField(kind) ==
    CASE kind = "commits" -> "date"
      [] kind = "pull_requests" -> "created_at"
      [] kind = "issues" -> "created_at"
      [] kind = "reviews" -> "submitted_at"
      [] kind = "comments" -> "created_at"

\* day codes of a record's timestamp: -1 the field holds None, 0 the key is
\* missing, d >= 1 a moment of day d
DayCodes == (-1)..MaxDay

\* flag codes of a PR's has_period_activity: 0 the key is missing, 1 True,
\* 2 False
FlagCodes == 0..2

\* the repository names of the records, in ascending lexicographic order
RepoOrder == <<"org/a", "org/b">>

\* the repository field of a record passed to aggregate(): empty, or a name
RepoValues == {""} \cup {RepoOrder[i] : i \in 1..Len(RepoOrder)}

\* the record (a dict with exactly these keys) a descriptor stands for; n tells
\* the records of one list apart
RecordOf(kind, day, flag, repo, n) ==
    [n |-> n, repository |-> repo]
    @@ (IF day = 0 THEN <<>>
        ELSE DateField(kind) :> (IF day = -1 THEN NoneValue ELSE IsoTimestamp(day)))
    @@ (IF kind # "pull_requests" \/ flag = 0 THEN <<>>
        ELSE "has_period_activity" :> (flag = 1))

\* DataAggregator._extract_date
ExtractDate(item, date_field) ==
    LET date_value == DGet(item, date_field, EmptyStr)
    IN  IF TruthyValue(date_value) THEN Prefix10(date_value) ELSE EmptyStr

\* the range test of _filter_by_date and _filter_prs_by_date
InPeriod(date_str) ==
    /\ date_str # EmptyStr
    /\ StrBetween(IsoFormat(a_start), date_str, IsoFormat(a_end))

\* a _filter_by_date whose range excludes end_date
FilterByDateEndExclusive(items, date_field) ==
    SelectSeq(items, LAMBDA item :
        /\ InPeriod(ExtractDate(item, date_field))
        /\ ExtractDate(item, date_field) # IsoFormat(a_end))

\* DataAggregator._filter_by_date
FilterByDate(items, date_field) ==
    SelectSeq(items, LAMBDA item : InPeriod(ExtractDate(item, date_field)))

\* a _filter_prs_by_date that looks at created_at alone
FilterPrsByCreationOnly(pull_requests) ==
    SelectSeq(pull_requests, LAMBDA pr : InPeriod(ExtractDate(pr, "created_at")))

\* DataAggregator._filter_prs_by_date
FilterPrsByDate(pull_requests) ==
    SelectSeq(pull_requests, LAMBDA pr :
        \/ DGet(pr, "has_period_activity", FALSE)
        \/ InPeriod(ExtractDate(pr, "created_at")))

\* Python's < on two repository names
RepoLess(a, b) ==
    \E i, j \in 1..Len(RepoOrder) : RepoOrder[i] = a /\ RepoOrder[j] = b /\ i < j

RECURSIVE Sorted(_)
\* sorted(repos) of a set of names
Sorted(repos) ==
    IF repos = {} THEN <<>>
    ELSE LET least == CHOOSE r \in repos : \A q \in repos \ {r} : RepoLess(r, q)
         IN  <<least>> \o Sorted(repos \ {least})

\* the truthy repository values of a list of records
ReposOf(items) ==
    { DGet(items[i], "repository", "") : i \in 1..Len(items) } \ {""}

\* a _collect_repositories that looks at the comments too
CollectRepositoriesWithComments(lists) ==
    Sorted(ReposOf(lists.commits) \cup ReposOf(lists.pull_requests)
           \cup ReposOf(lists.issues) \cup ReposOf(lists.reviews)
           \cup ReposOf(lists.comments))

\* DataAggregator._collect_repositories, on the filtered lists
CollectRepositories(lists) ==
    Sorted(ReposOf(lists.commits) \cup ReposOf(lists.pull_requests)
           \cup ReposOf(lists.issues) \cup ReposOf(lists.reviews))

NoLists == [k \in {Kinds[i] : i \in 1..Len(Kinds)} |-> <<>>]

AggInit ==
    /\ a_start = 2
    /\ a_end \in {2, 3}
    /\ a_pc = "input"
    /\ a_desc = NoLists
    /\ a_in = NoLists
    /\ a_out = NoLists
    /\ a_repositories = <<>>

Supplied == Len(a_in.commits) + Len(a_in.pull_requests) + Len(a_in.issues)
            + Len(a_in.reviews) + Len(a_in.comments)

\* the caller puts one more record into one of aggregate()'s arguments; the
\* arguments are filled in the order of Kinds
AggSupply ==
    /\ a_pc = "input"
    /\ Supplied < MaxAggRecords
    /\ \E i \in 1..Len(Kinds), day \in DayCodes, flag \in FlagCodes, repo \in RepoValues :
          LET kind == Kinds[i]
              n == Len(a_in[kind]) + 1
          IN  /\ \A j \in (i + 1)..Len(Kinds) : a_in[Kinds[j]] = <<>>
              /\ kind # "pull_requests" => flag = 0
              /\ a_desc' = [a_desc EXCEPT ![kind] = Append(@, [day |-> day, flag |-> flag])]
              /\ a_in' = [a_in EXCEPT ![kind] = Append(@, RecordOf(kind, day, flag, repo, n))]
    /\ UNCHANGED <<a_start, a_end, a_pc, a_out, a_repositories>>

\* DataAggregator.aggregate: each list through its date filter, then the
\* repositories of the filtered lists
Aggregate ==
    /\ a_pc = "input"
    /\ a_out' = [kind \in DOMAIN a_in |->
                    IF kind = "pull_requests"
                    THEN FilterPrsByDate(a_in[kind])
                    ELSE FilterByDate(a_in[kind], DateField(kind))]
    /\ a_repositories' = CollectRepositories(a_out')
    /\ a_pc' = "done"
    /\ UNCHANGED <<a_start, a_end, a_desc, a_in>>

\* aggregate() is not running
AggIdle ==
    /\ a_start = 0
    /\ a_end = 0
    /\ a_pc = "idle"
    /\ a_desc = <<>>
    /\ a_in = <<>>
    /\ a_out = <<>>
    /\ a_repositories = <<>>

\* --------------------------------------------------- aggregator: the claims
\* the positions of a list whose record is dated, by the calendar, within
\* [a_start, a_end]
DatedInPeriod(kind) ==
    { i \in 1..Len(a_desc[kind]) :
        a_desc[kind][i].day >= 1
        /\ a_start <= a_desc[kind][i].day /\ a_desc[kind][i].day <= a_end }

\* C6: a commit, issue, review or comment is in aggregate()'s result exactly
\* when its primary timestamp is present and its date lies in
\* [start_date, end_date] inclusive; a record without timestamp is excluded and
\* the kept records keep their input order.
C6_NonPrDateFilter ==
    a_pc = "done" =>
        \A kind \in {"commits", "issues", "reviews", "comments"} :
            a_out[kind] = Pick(a_in[kind], DatedInPeriod(kind), 1)

\* aggregate() got a record on end_date and kept it, after a record it dropped
\* for having no timestamp
C6_Witness ==
    /\ a_pc = "done"
    /\ \E kind \in {"commits", "issues", "reviews", "comments"} :
          /\ Len(a_desc[kind]) = 2
          /\ a_desc[kind][1].day <= 0
          /\ a_desc[kind][2].day = a_end
          /\ Len(a_out[kind]) = 1

\* C7: a pull request is in AggregatedData.pull_requests exactly when its
\* created_at date lies in [start_date, end_date] inclusive or its
\* has_period_activity flag is true; a flagged PR is kept even with created_at
\* missing or out of range, an unflagged one out of range never is.
C7_PrDateOrActivityFilter ==
    a_pc = "done" =>
        a_out.pull_requests =
            Pick(a_in.pull_requests,
                 DatedInPeriod("pull_requests")
                 \cup { i \in 1..Len(a_desc.pull_requests) :
                            a_desc.pull_requests[i].flag = 1 },
                 1)

\* aggregate() kept a flagged PR created before the period and dropped an
\* unflagged one
C7_Witness ==
    /\ a_pc = "done"
    /\ Len(a_out.pull_requests) = 1
    /\ \E i, j \in 1..Len(a_desc.pull_requests) :
          /\ a_desc.pull_requests[i].flag = 1
          /\ a_desc.pull_requests[i].day >= 1
          /\ a_desc.pull_requests[i].day < a_start
          /\ a_desc.pull_requests[j].flag # 1
          /\ a_desc.pull_requests[j].day < a_start

\* C11: AggregatedData.repositories is exactly the set of non-empty repository
\* values of the date-filtered commits, pull requests, issues and reviews (the
\* comments do not contribute), without duplicates, in ascending
\* lexicographic order.
C11_RepositoriesOfFilteredLists ==
    a_pc = "done" =>
        /\ { a_repositories[i] : i \in 1..Len(a_repositories) }
              = UNION { { a_out[kind][i].repository : i \in 1..Len(a_out[kind]) } :
                          kind \in {"commits", "pull_requests", "issues", "reviews"} }
                \ {""}
        /\ \A i, j \in 1..Len(a_repositories) :
              i < j => RepoLess(a_repositories[i], a_repositories[j])

\* aggregate() kept a comment of one repository and a record of another kind
\* of another repository
C11_Witness ==
    /\ a_pc = "done"
    /\ Len(a_out.comments) = 1
    /\ Len(a_repositories) = 1
    /\ a_out.comments[1].repository \notin {"", a_repositories[1]}
    /\ \E kind \in {"commits", "pull_requests", "issues", "reviews"} :
          /\ Len(a_in[kind]) = 1
          /\ Len(a_out[kind]) = 1

\* ------------------------------------- orchestrator: the authored-PR set
VARIABLES
    o_start,        \* _fetch_all_data's start_date (day ordinal)
    o_end,          \* its end_date
    o_pc,           \* "created" | "updated" | "open" | "merge" | "enrich" |
                    \* "aggregate" | "done"
    o_created,      \* per PR of the host, the day it was created
    o_updated,      \* per PR of the host, the day of its latest update
    created_prs,    \* prs_fetcher.fetch_period(...): PRs created in the period
    updated_prs,    \* prs_fetcher.fetch_prs_updated_in_period(...)
    open_prs_with_activity, \* prs_fetcher.fetch_open_prs_with_activity(...)
    o_scanned,      \* the open PRs the scan got from the host, in order
    o_verdict,      \* per scanned PR, what _check_pr_activity_in_period returned
    all_prs,        \* the list the merge loop built, as it left the loop
    pull_requests   \* the list handed on: merged, then enriched

prsVars == <<o_start, o_end, o_pc, o_created, o_updated, created_prs, updated_prs,
             open_prs_with_activity, o_scanned, o_verdict, all_prs, pull_requests>>

\* the PRs of the host: org/a#1, org/b#1, org/a#2, ...
HostPrs == 1..MaxPrs

\* days a PR of the host may have been created on: before the period, or on
\* its first day
CreatedDays == {1, 2}

\* days a PR's latest update may fall on: the last day of the period, or the
\* day after it
UpdatedDays == {3, 4}

\* the /search/issues item of PR i
PrItem(i) ==
    [ number |-> (i + 1) \div 2,
      title |-> "title",
      state |-> "open",
      repository_url |-> <<"https://api.github.com/repos",
                           IF i % 2 = 1 THEN "org/a" ELSE "org/b">>,
      created_at |-> IsoTimestamp(o_created[i]),
      updated_at |-> IsoTimestamp(o_updated[i]),
      pull_request |-> [merged_at |-> NoneValue],
      html_url |-> <<"https://github.com/pull", i>> ]

\* "/".join(repo_url.split("/")[-2:])
RepoName(repo_url) == repo_url[2]

\* the record PullRequestsFetcher._fetch_range builds from a search item
CreatedPrOfItem(item) ==
    [ number |-> item.number,
      title |-> item.title,
      state |-> IF TruthyValue(item.pull_request.merged_at) THEN "merged" ELSE item.state,
      repository |-> RepoName(item.repository_url),
      created_at |-> item.created_at,
      merged_at |-> item.pull_request.merged_at,
      closed_at |-> DGet(item, "closed_at", NoneValue),
      url |-> item.html_url ]

\* the record fetch_prs_updated_in_period builds from a search item
UpdatedPrOfItem(item) ==
    CreatedPrOfItem(item) @@ [updated_at |-> item.updated_at]

\* the record fetch_open_prs_with_activity builds for a PR with activity
OpenPrOfItem(item) ==
    UpdatedPrOfItem(item) @@ [has_period_activity |-> TRUE]

RECURSIVE Ascending(_, _)
\* the members of a set of numbers as the host lists them, in ascending
\* order from i
Ascending(set, i) ==
    IF set = {} THEN <<>>
    ELSE IF i \in set THEN <<i>> \o Ascending(set \ {i}, i + 1)
    ELSE Ascending(set, i + 1)

\* what a search of the host matches: created:start..end, updated:start..end,
\* is:open (every PR of the host is open)
CreatedInPeriod ==
    Ascending({i \in HostPrs : o_start <= o_created[i] /\ o_created[i] <= o_end}, 1)

UpdatedInPeriod ==
    Ascending({i \in HostPrs : o_start <= o_updated[i] /\ o_updated[i] <= o_end}, 1)

OpenPrs == Ascending(HostPrs, 1)

\* f"{pr.get('repository')}#{pr.get('number')}"
PrKey(pr) == <<pr.repository, "#", pr.number>>

RECURSIVE MergeLoop(_, _, _)
MergeLoop(prs, seen_pr_keys, merged) ==
    IF prs = <<>> THEN merged
    ELSE LET pr == Head(prs)
             pr_key == PrKey(pr)
         IN  IF pr_key \notin seen_pr_keys
             THEN MergeLoop(Tail(prs), seen_pr_keys \cup {pr_key}, Append(merged, pr))
             ELSE MergeLoop(Tail(prs), seen_pr_keys, merged)

RECURSIVE Reverse(_)
Reverse(l) == IF l = <<>> THEN <<>> ELSE Append(Reverse(Tail(l)), Head(l))

\* a merge in which the last record of a key wins
MergePrsLastWins(created, updated, open) ==
    Reverse(MergeLoop(Reverse(created \o updated \o open), {}, <<>>))

\* _fetch_all_data: merge and deduplicate PRs
MergePrs(created, updated, open) ==
    MergeLoop(created \o updated \o open, {}, <<>>)

\* enrich_with_details on one PR: the details call succeeded or raised
EnrichOne(pr, ok) ==
    IF pr.repository = "" \/ pr.number = 0 THEN pr
    ELSE IF ok
    THEN [commits_count |-> 1, additions |-> 1, deletions |-> 0] @@ pr
    ELSE pr

PrsInit ==
    /\ o_start = 2
    /\ o_end = 3
    /\ o_pc = "created"
    /\ o_created \in [HostPrs -> CreatedDays]
    /\ o_updated \in [HostPrs -> UpdatedDays]
    /\ created_prs = <<>>
    /\ updated_prs = <<>>
    /\ open_prs_with_activity = <<>>
    /\ o_scanned = <<>>
    /\ o_verdict = <<>>
    /\ all_prs = <<>>
    /\ pull_requests = <<>>

\* pull_requests = prs_fetcher.fetch_period(start_date, end_date): the PRs the
\* created-range search matches, or nothing when the search failed
FetchCreatedPrs ==
    /\ o_pc = "created"
    /\ \E ok \in BOOLEAN :
          LET l == IF ok THEN CreatedInPeriod ELSE <<>>
          IN  created_prs' = [k \in 1..Len(l) |-> CreatedPrOfItem(PrItem(l[k]))]
    /\ o_pc' = "updated"
    /\ UNCHANGED <<o_start, o_end, o_created, o_updated, updated_prs, open_prs_with_activity,
                   o_scanned, o_verdict, all_prs, pull_requests>>

\* updated_prs = prs_fetcher.fetch_prs_updated_in_period(start_date, end_date)
FetchUpdatedPrs ==
    /\ o_pc = "updated"
    /\ \E ok \in BOOLEAN :
          LET l == IF ok THEN UpdatedInPeriod ELSE <<>>
          IN  updated_prs' = [k \in 1..Len(l) |-> UpdatedPrOfItem(PrItem(l[k]))]
    /\ o_pc' = "open"
    /\ UNCHANGED <<o_start, o_end, o_created, o_updated, created_prs, open_prs_with_activity,
                   o_scanned, o_verdict, all_prs, pull_requests>>

\* open_prs_with_activity = prs_fetcher.fetch_open_prs_with_activity(...): the
\* open PRs of the host, each probed, those with activity kept and flagged
FetchOpenPrsWithActivity ==
    /\ o_pc = "open"
    /\ \E ok \in BOOLEAN, verdict \in [HostPrs -> BOOLEAN] :
          LET l == IF ok THEN OpenPrs ELSE <<>>
              active == SelectSeq(l, LAMBDA i : verdict[i])
          IN  /\ \A i \in HostPrs : (\A k \in 1..Len(l) : l[k] # i) => ~verdict[i]
              /\ o_scanned' = l
              /\ o_verdict' = verdict
              /\ open_prs_with_activity' =
                    [k \in 1..Len(active) |-> OpenPrOfItem(PrItem(active[k]))]
    /\ o_pc' = "merge"
    /\ UNCHANGED <<o_start, o_end, o_created, o_updated, created_prs, updated_prs, all_prs,
                   pull_requests>>

\* the merge loop over pull_requests + updated_prs + open_prs_with_activity
MergeAuthoredPrs ==
    /\ o_pc = "merge"
    /\ all_prs' = MergePrs(created_prs, updated_prs, open_prs_with_activity)
    /\ pull_requests' = all_prs'
    /\ o_pc' = "enrich"
    /\ UNCHANGED <<o_start, o_end, o_created, o_updated, created_prs, updated_prs,
                   open_prs_with_activity, o_scanned, o_verdict>>

\* pull_requests = prs_fetcher.enrich_with_details(pull_requests)
EnrichPrs ==
    /\ o_pc = "enrich"
    /\ \E ok \in [1..Len(pull_requests) -> BOOLEAN] :
          pull_requests' = [k \in 1..Len(pull_requests) |->
                                EnrichOne(pull_requests[k], ok[k])]
    /\ o_pc' = "aggregate"
    /\ UNCHANGED <<o_start, o_end, o_created, o_updated, created_prs, updated_prs,
                   open_prs_with_activity, o_scanned, o_verdict, all_prs>>

\* fetch_open_prs_with_activity and the rest are not running
PrsIdle ==
    /\ o_start = 0
    /\ o_end = 0
    /\ o_pc = "idle"
    /\ o_created = <<>>
    /\ o_updated = <<>>
    /\ created_prs = <<>>
    /\ updated_prs = <<>>
    /\ open_prs_with_activity = <<>>
    /\ o_scanned = <<>>
    /\ o_verdict = <<>>
    /\ all_prs = <<>>
    /\ pull_requests = <<>>

\* ReportOrchestrator.run: DataAggregator(username, start_date, end_date) and
\* the fetched pull requests as aggregate()'s argument
HandPrsToAggregator ==
    /\ o_pc = "aggregate"
    /\ a_pc = "idle"
    /\ o_pc' = "done"
    /\ a_start' = o_start
    /\ a_end' = o_end
    /\ a_pc' = "input"
    /\ a_desc' = NoLists
    /\ a_in' = [NoLists EXCEPT !.pull_requests = pull_requests]
    /\ a_out' = NoLists
    /\ a_repositories' = <<>>
    /\ UNCHANGED <<o_start, o_end, o_created, o_updated, created_prs, updated_prs,
                   open_prs_with_activity, o_scanned, o_verdict, all_prs,
                   pull_requests>>

\* ------------------------------ orchestrator: the authored-PR set, claims
\* the three results in merge order
PrSources == created_prs \o updated_prs \o open_prs_with_activity

\* C8: the merged authored-PR list holds exactly one record per distinct
\* "{repository}#{number}" key of the created-range, updated-range and
\* open-PR-activity results; the record kept for a key is the one of the
\* earliest source holding it, unchanged.
C8_AuthoredPrsUnionFirstWins ==
    o_pc \in {"enrich", "aggregate", "done"} =>
        /\ \A a, b \in 1..Len(all_prs) : a # b => PrKey(all_prs[a]) # PrKey(all_prs[b])
        /\ {PrKey(all_prs[k]) : k \in 1..Len(all_prs)}
              = {PrKey(PrSources[k]) : k \in 1..Len(PrSources)}
        /\ \A k \in 1..Len(all_prs) :
              \E j \in 1..Len(PrSources) :
                  /\ all_prs[k] = PrSources[j]
                  /\ \A h \in 1..(j - 1) : PrKey(PrSources[h]) # PrKey(all_prs[k])

\* a PR came back from the created-range search and, flagged, from the open-PR
\* scan, another from the updated-range search alone, and the merge is done
C8_Witness ==
    /\ o_pc = "enrich"
    /\ Len(all_prs) = 2
    /\ \E a \in 1..Len(created_prs), b \in 1..Len(open_prs_with_activity) :
          PrKey(created_prs[a]) = PrKey(open_prs_with_activity[b])
    /\ \E c \in 1..Len(updated_prs) :
          \A a \in 1..Len(created_prs) : PrKey(created_prs[a]) # PrKey(updated_prs[c])

\* C3: every open PR of the user created before the period for which the
\* activity probe found activity is in AggregatedData.pull_requests, whatever
\* the created-range and updated-range searches return.
C3_ProbedOpenPrIsReported ==
    (o_pc = "done" /\ a_pc = "done") =>
        \A k \in 1..Len(o_scanned) :
            (o_verdict[o_scanned[k]] /\ o_created[o_scanned[k]] < o_start) =>
                \E j \in 1..Len(a_out.pull_requests) :
                    PrKey(a_out.pull_requests[j])
                        = PrKey(OpenPrOfItem(PrItem(o_scanned[k])))

\* ------------------- orchestrator: commits of the search and of unmerged PRs
VARIABLES
    c_start,        \* _fetch_all_data's start_date (day ordinal)
    c_end,          \* its end_date
    c_pc,           \* "search" | "prs" | "merge" | "done"
    c_prs,          \* pull_requests: the authored-PR set
    commits,        \* commits_fetcher.fetch_period(...)
    c_i,            \* fetch_commits_from_prs: position in prs
    c_seen,         \* fetch_commits_from_prs: seen_shas
    c_log,          \* per PR asked, its number and the host's answer
    pr_commits,     \* fetch_commits_from_prs: all_commits, then the result
    all_commits     \* the merged commit list

commitVars == <<c_start, c_end, c_pc, c_prs, commits, c_i, c_seen, c_log,
                pr_commits, all_commits>>

\* self.username
Username == "me"

\* the identifying fields of an item of /search/commits
SearchItemShapes ==
    { [sha |-> s, html_url |-> u] : s \in {Absent, "a"}, u \in {"u1", "u2"} }

\* the answers of /search/commits: an error, or up to MaxSearchCommits items,
\* each stamped with its position as message
CommitSearchResponses ==
    {HostError}
    \cup UNION { { HostOk([k \in 1..n |-> [sha |-> shapes[k].sha,
                                           html_url |-> shapes[k].html_url,
                                           message |-> k]]) :
                     shapes \in [1..n -> SearchItemShapes] } :
                   n \in 0..MaxSearchCommits }

\* an item of /repos/{repo}/pulls/{number}/commits: its sha, the login of its
\* author and the day of its committer date (0: the date is null)
PrCommitItem(sha, login, d) ==
    [ sha |-> sha,
      author |-> [login |-> login],
      commit |-> [ message |-> "message",
                   author |-> [date |-> IF d = 0 THEN NoneValue ELSE IsoTimestamp(d)],
                   committer |-> [date |-> IF d = 0 THEN NoneValue ELSE IsoTimestamp(d)] ],
      html_url |-> "c" ]

\* by the user within the period, by somebody else, by the user before the
\* period, by the user with a null date
PrCommitShapes ==
    { PrCommitItem(s, x[1], x[2]) :
        s \in {"a", "b"},
        x \in {<<Username, 2>>, <<"other", 2>>, <<Username, 1>>, <<Username, 0>>} }

\* commits the host has served for PRs so far
PrCommitsServed == Len(Concat([k \in 1..Len(c_log) |-> c_log[k].resp.items]))

\* the answers of /repos/{repo}/pulls/{number}/commits to the next call
PrCommitResponses ==
    {HostError}
    \cup UNION { { HostOk(items) : items \in [1..n -> PrCommitShapes] } :
                   n \in 0..(MaxPrCommits - PrCommitsServed) }

\* the record fetch_commits_from_prs appends for a commit
PrCommitRecord(commit, repo, number) ==
    [ sha |-> DGet(commit, "sha", ""),
      message |-> commit.commit.message,
      repository |-> repo,
      date |-> commit.commit.committer.date,
      author_date |-> commit.commit.author.date,
      url |-> DGet(commit, "html_url", ""),
      from_pr |-> number ]

RECURSIVE PrCommitsLoop(_, _, _, _, _)
\* fetch_commits_from_prs: the loop over one PR's commits; a null committer
\* date makes [:10] raise, which ends the loop for this PR
PrCommitsLoop(items, repo, number, seen_shas, acc) ==
    IF items = <<>> THEN [seen_shas |-> seen_shas, all_commits |-> acc]
    ELSE LET commit == Head(items)
             sha == DGet(commit, "sha", "")
             author_login == commit.author.login
             date == commit.commit.committer.date
         IN  IF sha \in seen_shas
             THEN PrCommitsLoop(Tail(items), repo, number, seen_shas, acc)
             ELSE IF date = NoneValue
             THEN [seen_shas |-> seen_shas, all_commits |-> acc]
             ELSE IF author_login # Username
             THEN PrCommitsLoop(Tail(items), repo, number, seen_shas, acc)
             ELSE IF ~StrBetween(IsoFormat(c_start), Prefix10(date), IsoFormat(c_end))
             THEN PrCommitsLoop(Tail(items), repo, number, seen_shas, acc)
             ELSE PrCommitsLoop(Tail(items), repo, number, seen_shas \cup {sha},
                                Append(acc, PrCommitRecord(commit, repo, number)))

\* fetch_commits_from_prs: the body of the loop over prs
CommitsFromPr(pr, resp, seen_shas, acc) ==
    IF pr.repository = "" \/ pr.number = 0 \/ resp = HostError
    THEN [seen_shas |-> seen_shas, all_commits |-> acc]
    ELSE PrCommitsLoop(resp.items, pr.repository, pr.number, seen_shas, acc)

\* unmerged_prs = [pr for pr in pull_requests if pr.get("state") != "merged"]
UnmergedPrs(prs) == SelectSeq(prs, LAMBDA pr : pr.state # "merged")

RECURSIVE MergeCommitsLoop(_, _, _)
\* one of the two loops of the commit merge
MergeCommitsLoop(list, seen_shas, acc) ==
    IF list = <<>> THEN [seen_shas |-> seen_shas, all_commits |-> acc]
    ELSE LET sha == DGet(Head(list), "sha", "")
         IN  IF sha \notin seen_shas
             THEN MergeCommitsLoop(Tail(list), seen_shas \cup {sha},
                                   Append(acc, Head(list)))
             ELSE MergeCommitsLoop(Tail(list), seen_shas, acc)

\* the merge of commits from the search with commits from unmerged PRs
MergeCommits(search, from_prs) ==
    LET first == MergeCommitsLoop(search, {}, <<>>)
    IN  MergeCommitsLoop(from_prs, first.seen_shas, first.all_commits).all_commits

CommitsInit ==
    /\ c_start = 2
    /\ c_end = 3
    /\ c_pc = "search"
    /\ \E state \in [1..MaxCommitPrs -> {"open", "merged"}] :
          c_prs = [k \in 1..MaxCommitPrs |->
                      [number |-> k, repository |-> "org/a", state |-> state[k]]]
    /\ commits = <<>>
    /\ c_i = 1
    /\ c_seen = {}
    /\ c_log = <<>>
    /\ pr_commits = <<>>
    /\ all_commits = <<>>

\* commits = commits_fetcher.fetch_period(start_date, end_date), the period
\* being one window
FetchCommits ==
    /\ c_pc = "search"
    /\ \E resp \in CommitSearchResponses :
          commits' = Deduplicate(FetchRange(resp).events)
    /\ c_pc' = "prs"
    /\ UNCHANGED <<c_start, c_end, c_prs, c_i, c_seen, c_log, pr_commits, all_commits>>

\* fetch_commits_from_prs(unmerged_prs, start_date, end_date): one PR
FetchCommitsFromPr ==
    /\ c_pc = "prs"
    /\ c_i <= Len(UnmergedPrs(c_prs))
    /\ \E resp \in PrCommitResponses :
          LET pr == UnmergedPrs(c_prs)[c_i]
              out == CommitsFromPr(pr, resp, c_seen, pr_commits)
          IN  /\ c_seen' = out.seen_shas
              /\ pr_commits' = out.all_commits
              /\ c_log' = Append(c_log, [number |-> pr.number, resp |-> resp])
    /\ c_i' = c_i + 1
    /\ UNCHANGED <<c_start, c_end, c_pc, c_prs, commits, all_commits>>

\* the merge loops over commits and pr_commits
MergeAllCommits ==
    /\ c_pc = "prs"
    /\ c_i > Len(UnmergedPrs(c_prs))
    /\ all_commits' = MergeCommits(commits, pr_commits)
    /\ c_pc' = "done"
    /\ UNCHANGED <<c_start, c_end, c_prs, commits, c_i, c_seen, c_log, pr_commits>>

\* the commit fetches are not running
CommitsIdle ==
    /\ c_start = 0
    /\ c_end = 0
    /\ c_pc = "idle"
    /\ c_prs = <<>>
    /\ commits = <<>>
    /\ c_i = 0
    /\ c_seen = {}
    /\ c_log = <<>>
    /\ pr_commits = <<>>
    /\ all_commits = <<>>

\* ------------ orchestrator: commits of the search and of unmerged PRs, claims
\* the shas of a commit list
ShasOf(list) == {DGet(list[k], "sha", "") : k \in 1..Len(list)}

\* the final list is the search results followed by the PR commits whose sha
\* the search did not bring
C9_SearchThenNewPrCommits ==
    all_commits = commits \o SelectSeq(pr_commits, LAMBDA c : c.sha \notin ShasOf(commits))

\* no sha occurs twice in the final list
C9_NoShaTwice ==
    \A a, b \in 1..Len(all_commits) :
        a # b => DGet(all_commits[a], "sha", "") # DGet(all_commits[b], "sha", "")

\* a sha found by both sources keeps the search record
C9_SearchRecordWins ==
    \A k \in 1..Len(all_commits) :
        all_commits[k].sha \in ShasOf(commits) => "from_pr" \notin DOMAIN all_commits[k]

\* every commit of the PR source was served for the PR from_pr names, is by
\* the user and has a committer date within [start, end]
C9_PrCommitsByUserInPeriod ==
    \A k \in 1..Len(all_commits) :
        "from_pr" \in DOMAIN all_commits[k] =>
            \E j \in 1..Len(c_log) :
                /\ c_log[j].number = all_commits[k].from_pr
                /\ \E h \in 1..Len(c_log[j].resp.items) :
                      LET commit == c_log[j].resp.items[h]
                      IN  /\ commit.sha = all_commits[k].sha
                          /\ commit.author.login = Username
                          /\ commit.commit.committer.date = all_commits[k].date
                          /\ StrBetween(IsoFormat(c_start), Prefix10(all_commits[k].date),
                                        IsoFormat(c_end))

\* C9: the final commit list is the commit-search results followed by the
\* commits of unmerged PRs whose sha is not yet present: no sha occurs twice,
\* a sha found by both sources keeps the search record, and every commit of
\* the PR source is by the user, has a committer date within [start, end] and
\* carries the number of the PR it was fetched from as from_pr.
C9_FinalCommitList ==
    c_pc = "done" =>
        /\ C9_SearchThenNewPrCommits
        /\ C9_NoShaTwice
        /\ C9_SearchRecordWins
        /\ C9_PrCommitsByUserInPeriod

\* ---------------------- orchestrator: comments of the API and of the events
VARIABLES
    m_start,        \* _fetch_all_data's start_date (day ordinal)
    m_end,          \* its end_date
    m_pc,           \* "events" | "api" | "merge" | "done"
    events,         \* events_fetcher.fetch_period(...)
    event_comments, \* events_fetcher.extract_comment_events(events)
    m_served,       \* what /repos/{repo}/issues/{n}/comments answered
    api_comments,   \* comments_fetcher.fetch_period(...)
    all_comments    \* the merged comment list

commentVars == <<m_start, m_end, m_pc, events, event_comments, m_served,
                 api_comments, all_comments>>

\* the comments of the host, all on issue org/a#1
HostComments == 1..MaxComments

\* the id the host gives comment c
CommentIdOf(c) == 1000 + c

\* the html_url of comment c
CommentUrl(c) == <<"https://github.com/org/a/issues/1#issuecomment-", CommentIdOf(c)>>

\* str(n) of an integer: its decimal digits
Str(n) == <<"decimal", n>>

\* a comment of /repos/{repo}/issues/{n}/comments
CommentItem(c, login, d) ==
    [ id |-> CommentIdOf(c),
      user |-> [login |-> login],
      body |-> "body",
      created_at |-> IsoTimestamp(d),
      updated_at |-> IsoTimestamp(d),
      html_url |-> CommentUrl(c) ]

\* an event of the events API: a comment event on comment c, or a push
CommentEvent(c, d) ==
    [ type |-> "IssueCommentEvent",
      repo |-> [name |-> "org/a"],
      created_at |-> IsoTimestamp(d),
      payload |-> [ comment |-> [ created_at |-> IsoTimestamp(d),
                                  body |-> "body",
                                  html_url |-> CommentUrl(c) ],
                    issue |-> [number |-> 1] ] ]

PushEvent ==
    [ type |-> "PushEvent",
      repo |-> [name |-> "org/a"],
      created_at |-> IsoTimestamp(m_start),
      payload |-> [ref |-> "refs/heads/main"] ]

\* the lists events_fetcher.fetch_period may return: each event with its own id
EventLists ==
    UNION { { [k \in 1..n |-> [id |-> Str(k)] @@ shapes[k]] :
                shapes \in [1..n -> {PushEvent}
                                      \cup {CommentEvent(c, m_start) : c \in HostComments}] } :
              n \in 0..MaxEvents }

\* the answers of /repos/{repo}/issues/{n}/comments: an error, or the comments
\* of a set in the host's order, each by the user or by somebody else, on
\* the first day of the period or the day before
CommentListResponses ==
    {HostError}
    \cup { HostOk([k \in 1..Len(Ascending(set, 1)) |->
                     CommentItem(Ascending(set, 1)[k], who[Ascending(set, 1)[k]],
                                 day[Ascending(set, 1)[k]])]) :
             set \in SUBSET HostComments,
             who \in [HostComments -> {Username, "other"}],
             day \in [HostComments -> {m_start - 1, m_start}] }

\* filter_by_type
FilterByType(evts, event_types) == SelectSeq(evts, LAMBDA e : e.type \in event_types)

\* the record extract_comment_events builds from an event
CommentOfEvent(event) ==
    LET payload == DGet(event, "payload", <<>>)
        comment == DGet(payload, "comment", <<>>)
        repo == DGet(event, "repo", <<>>)
        issue == DGet(payload, "issue", <<>>)
    IN  [ type |-> event.type,
          repository |-> DGet(repo, "name", EmptyStr),
          issue_number |-> DGet(issue, "number", 0),
          created_at |-> IF TruthyValue(DGet(comment, "created_at", NoneValue))
                         THEN comment.created_at
                         ELSE DGet(event, "created_at", NoneValue),
          body_length |-> IF "body" \in DOMAIN comment THEN 4 ELSE 0,
          url |-> DGet(comment, "html_url", EmptyStr) ]

\* EventsFetcher.extract_comment_events
ExtractCommentEvents(evts) ==
    LET comment_events ==
            FilterByType(evts, {"IssueCommentEvent", "PullRequestReviewCommentEvent"})
    IN  [k \in 1..Len(comment_events) |-> CommentOfEvent(comment_events[k])]

\* the record _fetch_comments_on_issue appends for a comment
ApiCommentOfItem(comment, repo, issue_number) ==
    [ id |-> comment.id,
      type |-> "issue_comment",
      body |-> DGet(comment, "body", ""),
      repository |-> repo,
      issue_number |-> issue_number,
      created_at |-> comment.created_at,
      updated_at |-> comment.updated_at,
      url |-> DGet(comment, "html_url", EmptyStr) ]

RECURSIVE CommentsOnIssueLoop(_, _, _)
\* _fetch_comments_on_issue: the loop over the issue's comments
CommentsOnIssueLoop(items, seen_ids, acc) ==
    IF items = <<>> THEN acc
    ELSE LET comment == Head(items)
         IN  IF comment.id \in seen_ids
                \/ comment.user.login # Username
                \/ ~StrBetween(IsoFormat(m_start), Prefix10(comment.created_at),
                               IsoFormat(m_end))
             THEN CommentsOnIssueLoop(Tail(items), seen_ids, acc)
             ELSE CommentsOnIssueLoop(Tail(items), seen_ids \cup {comment.id},
                                      Append(acc, ApiCommentOfItem(comment, "org/a", 1)))

\* _fetch_comments_on_issue: a failure of the host gives no comments
FetchCommentsOnIssue(resp) ==
    IF resp = HostError THEN <<>> ELSE CommentsOnIssueLoop(resp.items, {}, <<>>)

\* comment_id = str(comment.get("id", "")) or comment.get("url", "")
CommentKey(comment) ==
    LET id_str == IF "id" \in DOMAIN comment THEN Str(comment.id) ELSE EmptyStr
    IN  IF id_str # EmptyStr THEN id_str ELSE DGet(comment, "url", EmptyStr)

RECURSIVE MergeCommentsLoop(_, _, _)
\* one of the two loops of the comment merge
MergeCommentsLoop(list, seen_comment_ids, acc) ==
    IF list = <<>> THEN [seen_comment_ids |-> seen_comment_ids, all_comments |-> acc]
    ELSE LET comment_id == CommentKey(Head(list))
         IN  IF comment_id # EmptyStr /\ comment_id \notin seen_comment_ids
             THEN MergeCommentsLoop(Tail(list), seen_comment_ids \cup {comment_id},
                                    Append(acc, Head(list)))
             ELSE MergeCommentsLoop(Tail(list), seen_comment_ids, acc)

\* the merge of the API comments with the event comments
MergeComments(api, from_events) ==
    LET first == MergeCommentsLoop(api, {}, <<>>)
    IN  MergeCommentsLoop(from_events, first.seen_comment_ids,
                          first.all_comments).all_comments

CommentsInit ==
    /\ m_start = 2
    /\ m_end = 3
    /\ m_pc = "events"
    /\ events = <<>>
    /\ event_comments = <<>>
    /\ m_served = HostOk(<<>>)
    /\ api_comments = <<>>
    /\ all_comments = <<>>

\* events = events_fetcher.fetch_period(...) and
\* event_comments = events_fetcher.extract_comment_events(events)
FetchEvents ==
    /\ m_pc = "events"
    /\ \E evts \in EventLists :
          /\ events' = evts
          /\ event_comments' = ExtractCommentEvents(evts)
    /\ m_pc' = "api"
    /\ UNCHANGED <<m_start, m_end, m_served, api_comments, all_comments>>

\* api_comments = comments_fetcher.fetch_period(...), the search naming the
\* one issue; seen_ids leaves the ids unique, so _deduplicate keeps every record
FetchApiComments ==
    /\ m_pc = "api"
    /\ \E resp \in CommentListResponses :
          /\ m_served' = resp
          /\ api_comments' = FetchCommentsOnIssue(resp)
    /\ m_pc' = "merge"
    /\ UNCHANGED <<m_start, m_end, events, event_comments, all_comments>>

\* the merge loops over api_comments and event_comments
MergeAllComments ==
    /\ m_pc = "merge"
    /\ all_comments' = MergeComments(api_comments, event_comments)
    /\ m_pc' = "done"
    /\ UNCHANGED <<m_start, m_end, events, event_comments, m_served, api_comments>>

\* the comment fetches are not running
CommentsIdle ==
    /\ m_start = 0
    /\ m_end = 0
    /\ m_pc = "idle"
    /\ events = <<>>
    /\ event_comments = <<>>
    /\ m_served = HostOk(<<>>)
    /\ api_comments = <<>>
    /\ all_comments = <<>>

\* ---------------- orchestrator: comments of the API and of the events, claims
\* the positions of a list whose record is of the comment at this url
RecordsOf(list, url) == {k \in 1..Len(list) : list[k].url = url}

\* C10: a comment returned by both the API and the events appears exactly once
\* in the merged comment list, as the API record.
C10_CommentOfBothSourcesOnce ==
    m_pc = "done" =>
        \A c \in HostComments :
            (RecordsOf(api_comments, CommentUrl(c)) # {}
                /\ RecordsOf(event_comments, CommentUrl(c)) # {}) =>
                /\ Cardinality(RecordsOf(all_comments, CommentUrl(c))) = 1
                /\ \A k \in RecordsOf(all_comments, CommentUrl(c)) :
                      "id" \in DOMAIN all_comments[k]

\* ------------------------------------------- AggregatedData: the summary
VARIABLES
    s_pc,       \* "input" | "done"
    s_data,     \* per kind, the list the AggregatedData holds
    s_summary   \* what get_summary() returned

summaryVars == <<s_pc, s_data, s_summary>>

\* day codes of a record's timestamp: -1 the field holds None, d >= 1 a moment
\* of day d
SummaryDays == {-1, 2, 3}

\* a record of the AggregatedData
SummaryRecord(kind, day, repo) ==
    (DateField(kind) :> (IF day = -1 THEN NoneValue ELSE IsoTimestamp(day)))
    @@ [repository |-> repo]

\* (item.get(date_field) or "")[:10]
DateStr(item, date_field) ==
    LET date_value == DGet(item, date_field, NoneValue)
    IN  Prefix10(IF TruthyValue(date_value) THEN date_value ELSE EmptyStr)

\* the keys one loop of _get_most_active_day counts, in order
DayKeys(items, date_field) ==
    LET all == [i \in 1..Len(items) |-> DateStr(items[i], date_field)]
    IN  SelectSeq(all, LAMBDA date_str : date_str # EmptyStr)

\* the keys one loop of _get_most_active_repo counts, in order
RepoKeys(items) ==
    LET all == [i \in 1..Len(items) |-> DGet(items[i], "repository", "")]
    IN  SelectSeq(all, LAMBDA repo : repo # "")

RECURSIVE CountKeys(_, _)
\* Counter: counter[key] += 1 for each key; the entries keep insertion order
CountKeys(keys, counter) ==
    IF keys = <<>> THEN counter
    ELSE LET key == Head(keys)
             at == {i \in 1..Len(counter) : counter[i].key = key}
         IN  IF at = {}
             THEN CountKeys(Tail(keys), Append(counter, [key |-> key, count |-> 1]))
             ELSE CountKeys(Tail(keys),
                            [i \in 1..Len(counter) |->
                                IF i \in at
                                THEN [key |-> key, count |-> counter[i].count + 1]
                                ELSE counter[i]])

\* a most_common(1) that returns the last of the entries with the largest count
MostCommonLast(counter) ==
    LET best == CHOOSE i \in 1..Len(counter) :
                    /\ \A j \in 1..Len(counter) : counter[j].count <= counter[i].count
                    /\ \A j \in (i + 1)..Len(counter) : counter[j].count < counter[i].count
    IN  counter[best].key

\* Counter.most_common(1)[0][0]: the first of the entries with the largest count
MostCommon(counter) ==
    LET best == CHOOSE i \in 1..Len(counter) :
                    /\ \A j \in 1..Len(counter) : counter[j].count <= counter[i].count
                    /\ \A j \in 1..(i - 1) : counter[j].count < counter[i].count
    IN  counter[best].key

\* AggregatedData._get_most_active_day
GetMostActiveDay(data) ==
    LET days == CountKeys(DayKeys(data.commits, "date")
                          \o DayKeys(data.pull_requests, "created_at")
                          \o DayKeys(data.issues, "created_at")
                          \o DayKeys(data.reviews, "submitted_at")
                          \o DayKeys(data.comments, "created_at"), <<>>)
    IN  IF days = <<>> THEN EmptyStr ELSE MostCommon(days)

\* AggregatedData._get_most_active_repo
GetMostActiveRepo(data) ==
    LET repos == CountKeys(RepoKeys(data.commits) \o RepoKeys(data.pull_requests)
                           \o RepoKeys(data.issues), <<>>)
    IN  IF repos = <<>> THEN "" ELSE MostCommon(repos)

\* AggregatedData.get_summary
GetSummaryOf(data, repositories) ==
    [ total_commits |-> Len(data.commits),
      total_prs_opened |-> Len(data.pull_requests),
      total_prs_merged |->
          Len(SelectSeq(data.pull_requests,
                        LAMBDA pr : TruthyValue(DGet(pr, "merged_at", NoneValue)))),
      total_prs_reviewed |->
          Cardinality({ DGet(data.reviews[i], "pr_number", 0) :
                          i \in 1..Len(data.reviews) } \ {0}),
      total_issues_opened |-> Len(data.issues),
      total_issues_closed |->
          Len(SelectSeq(data.issues, LAMBDA i : DGet(i, "state", "") = "closed")),
      total_comments |-> Len(data.comments),
      repos_contributed_to |-> Len(repositories),
      most_active_day |-> GetMostActiveDay(data),
      most_active_repo |-> GetMostActiveRepo(data) ]

SummaryInit ==
    /\ s_pc = "input"
    /\ s_data = NoLists
    /\ s_summary = <<>>

\* one more record in one of the AggregatedData's lists; the lists are filled
\* in the order of Kinds
SummarySupply ==
    /\ s_pc = "input"
    /\ Len(s_data.commits) + Len(s_data.pull_requests) + Len(s_data.issues)
         + Len(s_data.reviews) + Len(s_data.comments) < MaxSummaryRecords
    /\ \E i \in 1..Len(Kinds), day \in SummaryDays, repo \in RepoValues :
          /\ \A j \in (i + 1)..Len(Kinds) : s_data[Kinds[j]] = <<>>
          /\ s_data' = [s_data EXCEPT ![Kinds[i]] =
                            Append(@, SummaryRecord(Kinds[i], day, repo))]
    /\ UNCHANGED <<s_pc, s_summary>>

\* AggregatedData.get_summary()
GetSummary ==
    /\ s_pc = "input"
    /\ s_summary' = GetSummaryOf(s_data, CollectRepositories(s_data))
    /\ s_pc' = "done"
    /\ UNCHANGED s_data

\* get_summary() is not running
SummaryIdle ==
    /\ s_pc = "idle"
    /\ s_data = <<>>
    /\ s_summary = <<>>

\* ----------------------------------- AggregatedData: the summary, claims
\* the dates of the records in scan order: commits, PRs, issues, reviews,
\* comments
ScanDates ==
    LET of(kind) == [i \in 1..Len(s_data[kind]) |-> s_data[kind][i][DateField(kind)]]
        all == of("commits") \o of("pull_requests") \o of("issues") \o of("reviews")
               \o of("comments")
        dated == SelectSeq(all, LAMBDA ts : ts # NoneValue)
    IN  [i \in 1..Len(dated) |-> SubSeq(dated[i], 1, 3)]

\* the repositories of the records in scan order, over every kind
ScanRepos ==
    LET of(kind) == [i \in 1..Len(s_data[kind]) |-> s_data[kind][i].repository]
    IN  SelectSeq(of("commits") \o of("pull_requests") \o of("issues") \o of("reviews")
                  \o of("comments"), LAMBDA repo : repo # "")

\* how often a key occurs in a scan, and where it occurs first
Occurrences(scan, key) == Cardinality({i \in 1..Len(scan) : scan[i] = key})

FirstAt(scan, key) == CHOOSE i \in 1..Len(scan) :
                          scan[i] = key /\ \A j \in 1..(i - 1) : scan[j] # key

\* key is the mode of the scan, the first encountered of the keys that tie
IsFirstMode(scan, key) ==
    /\ \E i \in 1..Len(scan) : scan[i] = key
    /\ \A i \in 1..Len(scan) :
          \/ Occurrences(scan, scan[i]) < Occurrences(scan, key)
          \/ /\ Occurrences(scan, scan[i]) = Occurrences(scan, key)
             /\ FirstAt(scan, key) <= FirstAt(scan, scan[i])

\* C12: most_active_day is a date with the largest activity count over the
\* commits, PRs, issues, reviews and comments; of several dates that tie, the
\* one first encountered in that scan order; the empty string when no record
\* has a date.
C12_MostActiveDayIsFirstMode ==
    s_pc = "done" =>
        IF ScanDates = <<>>
        THEN s_summary.most_active_day = EmptyStr
        ELSE IsFirstMode(ScanDates, s_summary.most_active_day)

\* the day with the most records is not the first one scanned, and a tie was
\* broken on the way
C12_Witness ==
    /\ s_pc = "done"
    /\ Len(ScanDates) = 3
    /\ ScanDates[1] # ScanDates[2]
    /\ ScanDates[3] = ScanDates[2]
    /\ s_summary.most_active_day = ScanDates[2]

\* C13: most_active_repo is the repository with the largest number of records
\* over every kind (commits, PRs, issues, reviews and comments), of several
\* that tie the one first encountered in that scan order.
C13_MostActiveRepoOverEveryKind ==
    s_pc = "done" =>
        IF ScanRepos = <<>>
        THEN s_summary.most_active_repo = ""
        ELSE IsFirstMode(ScanRepos, s_summary.most_active_repo)

\* ------------------------------------------------- metrics: shared helpers
\* the ISO-8601 timestamp of hour h of day ordinal d, as the string's year,
\* month, day and hour fields
HourStamp(d, h) == IsoFormat(d) \o <<h>>

\* MetricsCalculator._parse_datetime, as hours since the eve of day ordinal 1;
\* a date without time parses as its midnight
ParseDatetime(dt_string) ==
    LET day == IF dt_string[1] = 2024 THEN dt_string[3] - 29 ELSE dt_string[3] + 2
        hour == IF Len(dt_string) >= 4 THEN dt_string[4] ELSE 0
    IN  24 * day + hour

\* (b - a).total_seconds() / 3600
HoursBetween(a, b) == ParseDatetime(b) - ParseDatetime(a)

\* an int held by a field that may hold None as well
IntValue(n) == <<"int", n>>

RECURSIVE SumSeq(_)
\* sum() of a list of numbers
SumSeq(xs) == IF xs = <<>> THEN 0 ELSE Head(xs) + SumSeq(Tail(xs))

\* a float that is the quotient of two integers
Ratio(num, den) == [num |-> num, den |-> den]

\* the 0.0 a metric field starts with
ZeroRatio == Ratio(0, 1)

\* sum(samples) / len(samples), or the untouched field when there is no sample
MeanOrZero(samples) ==
    IF samples = <<>> THEN ZeroRatio ELSE Ratio(SumSeq(samples), Len(samples))

\* equality of two such floats
SameRatio(a, b) == a.num * b.den = b.num * a.den

RECURSIVE InsertByKey(_, _, _)
\* the place sorted() gives x among items already sorted: after every item
\* whose key is not greater
InsertByKey(x, sorted_items, key) ==
    IF sorted_items = <<>> THEN <<x>>
    ELSE IF StrLeq(DGet(Head(sorted_items), key, EmptyStr), DGet(x, key, EmptyStr))
    THEN <<Head(sorted_items)>> \o InsertByKey(x, Tail(sorted_items), key)
    ELSE <<x>> \o sorted_items

RECURSIVE SortedByKey(_, _, _)
\* sorted(items, key=lambda r: r.get(key, "")): stable
SortedByKey(items, key, acc) ==
    IF items = <<>> THEN acc
    ELSE SortedByKey(Tail(items), key, InsertByKey(Head(items), acc, key))

\* ------------------------------------------------------ metrics: PR metrics
VARIABLES
    pm_pc,          \* "input" | "done"
    pm_prs,         \* calculate_pr_metrics' prs
    pm_reviews,     \* its reviews: the reviews the user made
    pm_others,      \* its reviews_on_authored_prs
    pm_result       \* what it returned

prMetricVars == <<pm_pc, pm_prs, pm_reviews, pm_others, pm_result>>

\* the k-th PR of the user, created at 00:00 of day 2, merged at 00:00 of day 3
\* or not merged
MetricPr(k, merged) ==
    [ repository |-> "org/a",
      number |-> k,
      created_at |-> HourStamp(2, 0),
      merged_at |-> IF merged THEN HourStamp(3, 0) ELSE NoneValue,
      commits_count |-> k ]

\* a review's state and the day it was submitted on: the day before the PR
\* was created, the day after, two days after
ReviewOutcomes ==
    { <<"APPROVED", 1>>, <<"APPROVED", 3>>, <<"APPROVED", 4>>,
      <<"CHANGES_REQUESTED", 4>>, <<"COMMENTED", 3>> }

\* a review record as ReviewsFetcher builds it
MetricReview(pr_number, user, outcome) ==
    [ repository |-> "org/a",
      pr_number |-> pr_number,
      state |-> outcome[1],
      submitted_at |-> HourStamp(outcome[2], 0),
      body_length |-> IntValue(0),
      user |-> user ]

\* f"{pr.get('repository', '')}#{pr.get('number', '')}"
MetricPrKey(pr) == <<DGet(pr, "repository", ""), "#", DGet(pr, "number", 0)>>

\* f"{review.get('repository', '')}#{review.get('pr_number', '')}"
ReviewPrKey(review) ==
    <<DGet(review, "repository", ""), "#", DGet(review, "pr_number", 0)>>

\* reviews_to_use = reviews_on_authored_prs if reviews_on_authored_prs else reviews
ReviewsToUse(reviews, reviews_on_authored_prs) ==
    IF reviews_on_authored_prs # <<>> THEN reviews_on_authored_prs ELSE reviews

\* reviews_by_pr.get(pr_key, [])
ReviewsOfPr(pr, reviews_to_use) ==
    SelectSeq(reviews_to_use, LAMBDA r : ReviewPrKey(r) = MetricPrKey(pr))

\* the hours from a PR's creation to its first review: one sample, or none
FirstReviewSample(pr, pr_reviews) ==
    IF pr_reviews = <<>> THEN <<>>
    ELSE LET first_review == SortedByKey(pr_reviews, "submitted_at", <<>>)[1]
             created_at == DGet(pr, "created_at", NoneValue)
             submitted_at == DGet(first_review, "submitted_at", NoneValue)
         IN  IF TruthyValue(created_at) /\ TruthyValue(submitted_at)
                /\ HoursBetween(created_at, submitted_at) >= 0
             THEN <<HoursBetween(created_at, submitted_at)>>
             ELSE <<>>

\* a count of review rounds that counts the reviews
ReviewCount(pr_reviews) == Len(pr_reviews)

\* len(set(get_reviewer(r) for r in pr_reviews))
DistinctReviewers(pr_reviews) ==
    Cardinality({ DGet(pr_reviews[i], "user", "") : i \in 1..Len(pr_reviews) })

\* a test of the first review of the PR only
FirstRequestsChanges(pr_reviews) ==
    pr_reviews # <<>> /\ DGet(pr_reviews[1], "state", "") = "CHANGES_REQUESTED"

\* any(r.get("state") == "CHANGES_REQUESTED" for r in pr_reviews)
HasChangesRequested(pr_reviews) ==
    \E i \in 1..Len(pr_reviews) : DGet(pr_reviews[i], "state", "") = "CHANGES_REQUESTED"

\* the merge times of calculate_pr_metrics
MergeTimes(prs) ==
    LET with == SelectSeq(prs, LAMBDA pr :
                    /\ TruthyValue(DGet(pr, "merged_at", NoneValue))
                    /\ TruthyValue(DGet(pr, "created_at", NoneValue)))
    IN  [i \in 1..Len(with) |-> HoursBetween(with[i].created_at, with[i].merged_at)]

\* MetricsCalculator.calculate_pr_metrics
CalculatePrMetrics(enabled, prs, reviews, reviews_on_authored_prs) ==
    IF ~enabled \/ prs = <<>> THEN Missing
    ELSE
    LET reviews_to_use == ReviewsToUse(reviews, reviews_on_authored_prs)
        pr_reviews(i) == ReviewsOfPr(prs[i], reviews_to_use)
        reviewed == {i \in 1..Len(prs) : pr_reviews(i) # <<>>}
        first_review_times ==
            Concat([i \in 1..Len(prs) |-> FirstReviewSample(prs[i], pr_reviews(i))])
        rounds == SumSeq([i \in 1..Len(prs) |->
                            IF i \in reviewed THEN DistinctReviewers(pr_reviews(i)) ELSE 0])
    IN  Some([ avg_commits_per_pr |->
                   Ratio(SumSeq([i \in 1..Len(prs) |->
                                    DGet(prs[i], "commits_count",
                                         DGet(prs[i], "commits", 0))]),
                         Len(prs)),
               avg_time_to_merge_hours |-> MeanOrZero(MergeTimes(prs)),
               avg_time_to_first_review_hours |->
                   IF reviews_to_use = <<>> THEN ZeroRatio
                   ELSE MeanOrZero(first_review_times),
               avg_review_iterations |->
                   IF reviews_to_use = <<>> THEN ZeroRatio
                   ELSE Ratio(rounds, Len(prs)),
               prs_merged_without_changes |->
                   IF reviews_to_use = <<>> THEN 0
                   ELSE Cardinality({i \in reviewed :
                           /\ ~HasChangesRequested(pr_reviews(i))
                           /\ TruthyValue(DGet(prs[i], "merged_at", NoneValue))}),
               prs_with_requested_changes |->
                   IF reviews_to_use = <<>> THEN 0
                   ELSE Cardinality({i \in reviewed : HasChangesRequested(pr_reviews(i))}) ])

PrMetricsInit ==
    /\ pm_pc = "input"
    /\ pm_prs = <<>>
    /\ pm_reviews = <<>>
    /\ pm_others = <<>>
    /\ pm_result = Missing

\* the caller puts one more PR into prs
SupplyMetricPr ==
    /\ pm_pc = "input"
    /\ Len(pm_prs) < MaxMetricPrs
    /\ pm_others = <<>> /\ pm_reviews = <<>>
    /\ \E merged \in BOOLEAN :
          pm_prs' = Append(pm_prs, MetricPr(Len(pm_prs) + 1, merged))
    /\ UNCHANGED <<pm_pc, pm_reviews, pm_others, pm_result>>

\* the caller puts one more review by somebody else into
\* reviews_on_authored_prs
SupplyReviewOnAuthoredPr ==
    /\ pm_pc = "input"
    /\ Len(pm_others) + Len(pm_reviews) < MaxMetricReviews
    /\ pm_reviews = <<>>
    /\ \E n \in {1, 2}, user \in {"ann", "bob"}, outcome \in ReviewOutcomes :
          pm_others' = Append(pm_others, MetricReview(n, user, outcome))
    /\ UNCHANGED <<pm_pc, pm_prs, pm_reviews, pm_result>>

\* the caller puts one more review the user made into reviews
SupplyOwnReview ==
    /\ pm_pc = "input"
    /\ Len(pm_others) + Len(pm_reviews) < MaxMetricReviews
    /\ \E n \in {1, 2}, outcome \in ReviewOutcomes :
          pm_reviews' = Append(pm_reviews, MetricReview(n, Username, outcome))
    /\ UNCHANGED <<pm_pc, pm_prs, pm_others, pm_result>>

\* calculate_pr_metrics(prs, reviews, reviews_on_authored_prs), pr_metrics
\* being enabled
CalculatePrMetricsCall ==
    /\ pm_pc = "input"
    /\ pm_result' = CalculatePrMetrics(TRUE, pm_prs, pm_reviews, pm_others)
    /\ pm_pc' = "done"
    /\ UNCHANGED <<pm_prs, pm_reviews, pm_others>>

\* calculate_pr_metrics is not running
PrMetricsIdle ==
    /\ pm_pc = "idle"
    /\ pm_prs = <<>>
    /\ pm_reviews = <<>>
    /\ pm_others = <<>>
    /\ pm_result = Missing

\* the review list calculate_pr_metrics reads: reviews_on_authored_prs unless
\* it is empty, then reviews
PmUsedReviews == IF pm_others # <<>> THEN pm_others ELSE pm_reviews

\* the positions in a review list of the reviews of the k-th PR
PmMatching(k, list) ==
    { i \in 1..Len(list) :
        /\ list[i].repository = pm_prs[k].repository
        /\ list[i].pr_number = pm_prs[k].number }

\* the hours from the creation of the k-th PR to the earliest review of it in
\* a review list
PmEarliest(k, list) ==
    LET at(i) == ParseDatetime(list[i].submitted_at)
        first == CHOOSE i \in PmMatching(k, list) :
                    \A j \in PmMatching(k, list) : at(i) <= at(j)
    IN  at(first) - ParseDatetime(pm_prs[k].created_at)

\* the PRs that give a first-review duration, from a review list
PmTimed(list) ==
    { k \in 1..Len(pm_prs) : PmMatching(k, list) # {} /\ PmEarliest(k, list) >= 0 }

\* the mean first-review duration a review list gives
PmFirstReviewMean(list) ==
    IF PmTimed(list) = {} THEN ZeroRatio
    ELSE Ratio(SumSeq([k \in 1..Len(pm_prs) |->
                         IF k \in PmTimed(list) THEN PmEarliest(k, list) ELSE 0]),
               Cardinality(PmTimed(list)))

\* C14: avg_time_to_first_review_hours is computed from the reviews other
\* users made on the user's PRs only, never from the user's own reviews: the
\* mean, over the PRs whose earliest such review is not before the PR's
\* creation, of the hours from creation to that review.
C14_FirstReviewFromOthersOnly ==
    (pm_pc = "done" /\ pm_result # Missing) =>
        SameRatio(pm_result[1].avg_time_to_first_review_hours,
                  PmFirstReviewMean(pm_others))

\* the reviewed PRs, by the review list the function reads
PmReviewed == { k \in 1..Len(pm_prs) : PmMatching(k, PmUsedReviews) # {} }

\* the number of distinct reviewers of the k-th PR
PmReviewers(k) ==
    Cardinality({ PmUsedReviews[i].user : i \in PmMatching(k, PmUsedReviews) })

\* the distinct reviewers of the reviewed PRs, summed
PmReviewerSum ==
    SumSeq([k \in 1..Len(pm_prs) |-> IF k \in PmReviewed THEN PmReviewers(k) ELSE 0])

\* C15 as stated: avg_review_iterations is the mean over the PRs with at
\* least one matching review of the number of distinct reviewers; PRs without
\* a matching review do not enter the denominator.
C15_MeanOverReviewedPrs ==
    (pm_pc = "done" /\ pm_result # Missing) =>
        SameRatio(pm_result[1].avg_review_iterations,
                  IF PmReviewed = {} THEN ZeroRatio
                  ELSE Ratio(PmReviewerSum, Cardinality(PmReviewed)))

\* C15: avg_review_iterations is the sum, over the PRs with at least one
\* matching review, of the number of distinct reviewers of the PR, divided by
\* the number of all PRs passed in: PRs without a matching review add nothing
\* to the sum and do enter the denominator.
C15_DistinctReviewersOverAllPrs ==
    (pm_pc = "done" /\ pm_result # Missing) =>
        SameRatio(pm_result[1].avg_review_iterations,
                  Ratio(PmReviewerSum, Len(pm_prs)))

\* two PRs, the first reviewed twice by one reviewer, the second not reviewed:
\* half an iteration per PR
C15_Witness ==
    /\ pm_pc = "done" /\ pm_result # Missing
    /\ Len(pm_prs) = 2
    /\ Cardinality(PmMatching(1, PmUsedReviews)) = 2
    /\ PmReviewers(1) = 1
    /\ PmMatching(2, PmUsedReviews) = {}
    /\ SameRatio(pm_result[1].avg_review_iterations, Ratio(1, 2))

\* some matching review of the k-th PR requests changes
PmChangesRequested(k) ==
    \E i \in PmMatching(k, PmUsedReviews) : PmUsedReviews[i].state = "CHANGES_REQUESTED"

\* the k-th PR is merged
PmMerged(k) == pm_prs[k].merged_at # NoneValue

VARIABLES
    rm_pc,          \* "prs" | "input" | "done"
    rm_reviews,     \* calculate_review_metrics' reviews
    rm_prs,         \* its prs: the PRs the user reviewed
    rm_result       \* what it returned

reviewMetricVars == <<rm_pc, rm_reviews, rm_prs, rm_result>>

\* a review body of four characters
BodyText == <<"t", "e", "x", "t">>

\* the state, body_length and body of a review: as ReviewsFetcher sets them
\* (body_length an int, no body), and as a caller may (body_length None or
\* left out, a body or none)
ReviewBodyShapes ==
    { [state |-> "APPROVED", body_length |-> IntValue(0)],
      [state |-> "CHANGES_REQUESTED", body_length |-> IntValue(4)],
      [state |-> "COMMENTED", body_length |-> NoneValue, body |-> BodyText],
      [state |-> "APPROVED", body_length |-> NoneValue, body |-> EmptyStr],
      [state |-> "COMMENTED", body_length |-> NoneValue],
      [state |-> "CHANGES_REQUESTED", body |-> BodyText] }

\* the PR a review is of and the review's timestamps
ReviewTimeShapes ==
    { [pr_number |-> 1, submitted_at |-> NoneValue],
      [pr_number |-> 1, submitted_at |-> HourStamp(3, 6)],
      [pr_number |-> 1, submitted_at |-> HourStamp(1, 0), requested_at |-> HourStamp(0, 0)],
      [pr_number |-> 2, submitted_at |-> HourStamp(3, 0), requested_at |-> HourStamp(2, 12)],
      [pr_number |-> 2, submitted_at |-> HourStamp(1, 0), requested_at |-> HourStamp(2, 0)],
      [pr_number |-> 2, submitted_at |-> HourStamp(4, 0)] }

\* the prs argument: none, the first PR, the first PR without created_at, the
\* first PR twice with two creation times, both PRs
ReviewedPrLists ==
    LET pr(n, created_at) ==
            [repository |-> "org/a", number |-> n, created_at |-> created_at]
    IN  { <<>>,
          <<pr(1, HourStamp(2, 0))>>,
          <<pr(1, NoneValue)>>,
          <<pr(1, HourStamp(2, 0)), pr(1, HourStamp(3, 0))>>,
          <<pr(1, HourStamp(2, 0)), pr(2, HourStamp(2, 0))>> }

\* prs_by_key.get(pr_key): the last PR put under the key, or nothing
PrByKey(prs, pr_key) ==
    LET at == { i \in 1..Len(prs) : MetricPrKey(prs[i]) = pr_key }
    IN  IF at = {} THEN Missing
        ELSE Some(prs[CHOOSE i \in at : \A j \in at : j <= i])

\* body_length = review.get("body_length", 0), recomputed from the body when
\* it is None
BodyLength(review) ==
    LET body_length == DGet(review, "body_length", IntValue(0))
        body == DGet(review, "body", EmptyStr)
    IN  IF body_length = NoneValue
        THEN IF TruthyValue(body) THEN Len(body) ELSE 0
        ELSE body_length[2]

\* a start of the turnaround that takes requested_at whenever the PR gives no
\* creation time
PrCreatedAtOrRequested(review, prs) ==
    LET pr == PrByKey(prs, ReviewPrKey(review))
        created_at == IF pr # Missing THEN DGet(pr[1], "created_at", NoneValue)
                      ELSE NoneValue
    IN  IF TruthyValue(created_at) THEN created_at
        ELSE DGet(review, "requested_at", NoneValue)

\* pr_created_at = pr.get("created_at") if pr else review.get("requested_at")
PrCreatedAt(review, prs) ==
    LET pr == PrByKey(prs, ReviewPrKey(review))
    IN  IF pr # Missing THEN DGet(pr[1], "created_at", NoneValue)
        ELSE DGet(review, "requested_at", NoneValue)

\* the turnaround of one review: one sample, or none
TurnaroundSample(review, prs) ==
    LET submitted_at == DGet(review, "submitted_at", NoneValue)
        pr_created_at == PrCreatedAt(review, prs)
    IN  IF TruthyValue(submitted_at) /\ TruthyValue(pr_created_at)
           /\ HoursBetween(pr_created_at, submitted_at) >= 0
        THEN <<HoursBetween(pr_created_at, submitted_at)>>
        ELSE <<>>

\* the number of reviews in a given state
StateCount(reviews, state) ==
    Cardinality({ i \in 1..Len(reviews) : DGet(reviews[i], "state", "") = state })

\* MetricsCalculator.calculate_review_metrics
CalculateReviewMetrics(enabled, reviews, prs) ==
    IF ~enabled \/ reviews = <<>> THEN Missing
    ELSE Some([ approvals |-> StateCount(reviews, "APPROVED"),
                changes_requested |-> StateCount(reviews, "CHANGES_REQUESTED"),
                reviews_with_comments |->
                    Cardinality({ i \in 1..Len(reviews) : BodyLength(reviews[i]) > 0 }),
                avg_review_turnaround_hours |->
                    MeanOrZero(Concat([i \in 1..Len(reviews) |->
                                         TurnaroundSample(reviews[i], prs)])) ])

ReviewMetricsInit ==
    /\ rm_pc = "prs"
    /\ rm_reviews = <<>>
    /\ rm_prs = <<>>
    /\ rm_result = Missing

\* the caller settles prs
SupplyReviewedPrs ==
    /\ rm_pc = "prs"
    /\ rm_prs' \in ReviewedPrLists
    /\ rm_pc' = "input"
    /\ UNCHANGED <<rm_reviews, rm_result>>

\* the caller puts one more review into reviews
SupplyReview ==
    /\ rm_pc = "input"
    /\ Len(rm_reviews) < MaxReviewMetricReviews
    /\ \E b \in ReviewBodyShapes, t \in ReviewTimeShapes :
          rm_reviews' = Append(rm_reviews, [repository |-> "org/a"] @@ b @@ t)
    /\ UNCHANGED <<rm_pc, rm_prs, rm_result>>

\* calculate_review_metrics(reviews, prs), review_metrics being enabled
CalculateReviewMetricsCall ==
    /\ rm_pc = "input"
    /\ rm_result' = CalculateReviewMetrics(TRUE, rm_reviews, rm_prs)
    /\ rm_pc' = "done"
    /\ UNCHANGED <<rm_reviews, rm_prs>>

\* calculate_review_metrics is not running
ReviewMetricsIdle ==
    /\ rm_pc = "idle"
    /\ rm_reviews = <<>>
    /\ rm_prs = <<>>
    /\ rm_result = Missing

\* the body length that is the body_length field, or the length of the body
\* when the field is missing or None
BodyLengthOrBody(review) ==
    LET body_length == DGet(review, "body_length", NoneValue)
        body == DGet(review, "body", EmptyStr)
    IN  IF body_length = NoneValue
        THEN IF TruthyValue(body) THEN Len(body) ELSE 0
        ELSE body_length[2]

\* C17: approvals is the number of reviews with state APPROVED,
\* changes_requested the number with state CHANGES_REQUESTED, and
\* reviews_with_comments the number of reviews whose body length is above 0,
\* the body length being the body_length field or, without that field, the
\* length of the body.
C17_CountsByStateAndBody ==
    (rm_pc = "done" /\ rm_result # Missing) =>
        /\ rm_result[1].approvals
             = Cardinality({ i \in 1..Len(rm_reviews) : rm_reviews[i].state = "APPROVED" })
        /\ rm_result[1].changes_requested
             = Cardinality({ i \in 1..Len(rm_reviews) :
                               rm_reviews[i].state = "CHANGES_REQUESTED" })
        /\ rm_result[1].reviews_with_comments
             = Cardinality({ i \in 1..Len(rm_reviews) : BodyLengthOrBody(rm_reviews[i]) > 0 })

\* the creation time of the last PR under the review's key; requested_at when
\* no PR has that key
RmStart(i) ==
    LET same == { k \in 1..Len(rm_prs) :
                    /\ rm_prs[k].repository = rm_reviews[i].repository
                    /\ rm_prs[k].number = rm_reviews[i].pr_number }
    IN  IF same # {}
        THEN rm_prs[CHOOSE k \in same : \A j \in same : j <= k].created_at
        ELSE IF "requested_at" \in DOMAIN rm_reviews[i]
        THEN rm_reviews[i].requested_at
        ELSE NoneValue

\* the reviews that give a turnaround
RmTimed ==
    { i \in 1..Len(rm_reviews) :
        /\ rm_reviews[i].submitted_at # NoneValue
        /\ RmStart(i) # NoneValue
        /\ ParseDatetime(rm_reviews[i].submitted_at) >= ParseDatetime(RmStart(i)) }

VARIABLES
    en_pc,          \* "input" | "done"
    en_commits,     \* calculate_engagement_metrics' commits
    en_comments,    \* its comments
    en_result       \* what it returned

engagementVars == <<en_pc, en_commits, en_comments, en_result>>

\* the moments comments are made at: one, five hours later, a week after the
\* first, a week and an hour after the third
CommentMoments ==
    { HourStamp(1, 0), HourStamp(1, 5), HourStamp(8, 0), HourStamp(15, 1) }

\* a comment record on issue n, with its created_at or without
EngagementComments ==
    { [repository |-> "org/a", issue_number |-> n, created_at |-> t] :
        n \in {1, 2}, t \in CommentMoments }
    \cup { [repository |-> "org/a", issue_number |-> n] : n \in {1, 2} }

\* f"{comment.get('repository', '')}#{comment.get('issue_number', '')}"
ThreadKey(comment) ==
    <<DGet(comment, "repository", ""), "#", DGet(comment, "issue_number", 0)>>

RECURSIVE ThreadKeys(_, _)
\* the keys of comments_by_thread, in the order they were put in
ThreadKeys(comments, acc) ==
    IF comments = <<>> THEN acc
    ELSE LET thread_key == ThreadKey(Head(comments))
         IN  ThreadKeys(Tail(comments),
                        IF \E i \in 1..Len(acc) : acc[i] = thread_key THEN acc
                        ELSE Append(acc, thread_key))

\* a gap between two comments that is kept whatever its length
ResponseSampleAnyGap(prev_time, curr_time) ==
    IF TruthyValue(prev_time) /\ TruthyValue(curr_time)
       /\ 0 <= HoursBetween(prev_time, curr_time)
    THEN <<HoursBetween(prev_time, curr_time)>>
    ELSE <<>>

\* the hours between two neighbouring comments: one sample, or none
ResponseSample(prev_time, curr_time) ==
    IF TruthyValue(prev_time) /\ TruthyValue(curr_time)
       /\ 0 <= HoursBetween(prev_time, curr_time)
       /\ HoursBetween(prev_time, curr_time) <= 168
    THEN <<HoursBetween(prev_time, curr_time)>>
    ELSE <<>>

\* the samples of one thread
ThreadResponseTimes(thread_comments) ==
    LET sorted_comments == SortedByKey(thread_comments, "created_at", <<>>)
    IN  Concat([i \in 1..(Len(sorted_comments) - 1) |->
                  ResponseSample(DGet(sorted_comments[i], "created_at", NoneValue),
                                 DGet(sorted_comments[i + 1], "created_at", NoneValue))])

\* response_times
ResponseTimes(comments) ==
    LET keys == ThreadKeys(comments, <<>>)
    IN  Concat([k \in 1..Len(keys) |->
                  ThreadResponseTimes(
                      SelectSeq(comments, LAMBDA c : ThreadKey(c) = keys[k]))])

\* len(reviews) if reviews else 0, of a list or None
LenOrZero(list_or_none) ==
    IF list_or_none = Missing THEN 0
    ELSE IF list_or_none[1] = <<>> THEN 0 ELSE Len(list_or_none[1])

\* a score that weighs reviews, comments and reactions alike
CollaborationScoreUnweighted(review_count, comment_count, reaction_count) ==
    Ratio(review_count + comment_count + reaction_count, 1)

\* review_count * 3.0 + comment_count * 1.0 + reaction_count * 0.5
CollaborationScore(review_count, comment_count, reaction_count) ==
    Ratio(6 * review_count + 2 * comment_count + reaction_count, 2)

\* MetricsCalculator.calculate_engagement_metrics; reviews and reactions are
\* lists or None, modelled by their lengths
CalculateEngagementMetrics(enabled, commit_list, comments, review_count, reaction_count) ==
    IF ~enabled THEN Missing
    ELSE Some([ comment_to_code_ratio |->
                    IF commit_list # <<>> THEN Ratio(Len(comments), Len(commit_list))
                    ELSE ZeroRatio,
                avg_response_time_hours |-> MeanOrZero(ResponseTimes(comments)),
                collaboration_score |->
                    CollaborationScore(review_count, Len(comments), reaction_count) ])

EngagementInit ==
    /\ en_pc = "input"
    /\ en_commits = <<>>
    /\ en_comments = <<>>
    /\ en_result = Missing

\* the caller puts one more commit into commits
SupplyEngagementCommit ==
    /\ en_pc = "input"
    /\ en_comments = <<>>
    /\ Len(en_commits) < MaxEngagementCommits
    /\ en_commits' = Append(en_commits, [repository |-> "org/a"])
    /\ UNCHANGED <<en_pc, en_comments, en_result>>

\* the caller puts one more comment into comments
SupplyEngagementComment ==
    /\ en_pc = "input"
    /\ Len(en_comments) < MaxEngagementComments
    /\ \E c \in EngagementComments : en_comments' = Append(en_comments, c)
    /\ UNCHANGED <<en_pc, en_commits, en_result>>

\* calculate_engagement_metrics(commits, comments, reviews, None),
\* engagement_metrics being enabled and reviews empty
CalculateEngagementMetricsCall ==
    /\ en_pc = "input"
    /\ en_result' = CalculateEngagementMetrics(TRUE, en_commits, en_comments, 0, 0)
    /\ en_pc' = "done"
    /\ UNCHANGED <<en_commits, en_comments>>

\* calculate_engagement_metrics is not running
EngagementIdle ==
    /\ en_pc = "idle"
    /\ en_commits = <<>>
    /\ en_comments = <<>>
    /\ en_result = Missing

\* the comments of issue n, by position
EnThread(n) == { i \in 1..Len(en_comments) : en_comments[i].issue_number = n }

\* the moment of the i-th comment, in hours; a comment without created_at
\* sorts before every other
EnMoment(i) ==
    IF "created_at" \in DOMAIN en_comments[i]
    THEN ParseDatetime(en_comments[i].created_at) ELSE -1

\* the comments of issue n in an order of ascending created_at
EnSorted(n) ==
    LET size == Cardinality(EnThread(n))
    IN  CHOOSE p \in [1..size -> EnThread(n)] :
            /\ \A i, j \in 1..size : i # j => p[i] # p[j]
            /\ \A i \in 1..(size - 1) : EnMoment(p[i]) <= EnMoment(p[i + 1])

\* the places in that order whose comment and the next both carry created_at
\* and are at most a week apart
EnKept(n) ==
    { i \in 1..(Cardinality(EnThread(n)) - 1) :
        /\ EnMoment(EnSorted(n)[i]) >= 0
        /\ EnMoment(EnSorted(n)[i + 1]) - EnMoment(EnSorted(n)[i]) <= 168 }

\* the gaps kept in the thread of issue n, summed
EnGapSum(n) ==
    SumSeq([i \in 1..(Cardinality(EnThread(n)) - 1) |->
              IF i \in EnKept(n)
              THEN EnMoment(EnSorted(n)[i + 1]) - EnMoment(EnSorted(n)[i])
              ELSE 0])

\* C19: avg_response_time_hours is the mean of the gaps between consecutive
\* comments of one thread, the thread's comments sorted by created_at, over
\* the gaps of 0 to 168 hours; a longer gap and a pair of comments of two
\* threads give no sample, and the value is 0 when no gap is kept.
C19_MeanOfGapsWithinAWeek ==
    (en_pc = "done" /\ en_result # Missing) =>
        SameRatio(en_result[1].avg_response_time_hours,
                  IF EnKept(1) \cup EnKept(2) = {} THEN ZeroRatio
                  ELSE Ratio(EnGapSum(1) + EnGapSum(2),
                             Cardinality(EnKept(1)) + Cardinality(EnKept(2))))

\* three comments of one thread passed in out of order, a week and then a
\* week and an hour apart: the one gap kept is that of 168 hours
C19_Witness ==
    /\ en_pc = "done" /\ en_result # Missing
    /\ Len(en_comments) = 3
    /\ EnThread(1) = {1, 2, 3}
    /\ EnMoment(1) = ParseDatetime(HourStamp(15, 1))
    /\ EnMoment(2) = ParseDatetime(HourStamp(1, 0))
    /\ EnMoment(3) = ParseDatetime(HourStamp(8, 0))
    /\ SameRatio(en_result[1].avg_response_time_hours, Ratio(168, 1))

\* ------------------------------------------------- metrics: calculate_all
VARIABLES
    ma_pc,          \* "config" | "input" | "called" | "done"
    ma_config,      \* MetricsConfig: the five flags
    ma_prs,         \* calculate_all's prs
    ma_reviews,     \* its reviews
    ma_commits,     \* its commits
    ma_comments,    \* its comments
    ma_events,      \* its events
    ma_reactions,   \* its reactions
    ma_returned,    \* what each of the five calculations returns on these lists
    ma_all          \* what calculate_all returned

allMetricVars ==
    <<ma_pc, ma_config, ma_prs, ma_reviews, ma_commits, ma_comments, ma_events,
      ma_reactions, ma_returned, ma_all>>

\* the flags of MetricsConfig
MetricFlags ==
    { "pr_metrics", "review_metrics", "engagement_metrics", "productivity_patterns",
      "reaction_breakdown" }

\* MetricsConfig(): every metric enabled
DefaultMetricsConfig == [flag \in MetricFlags |-> TRUE]

\* the keys of ProductivityPatterns.by_day, in the order of the dict
WeekdayNames ==
    << "Monday", "Tuesday", "Wednesday", "Thursday", "Friday", "Saturday", "Sunday" >>

\* dt.strftime("%A"): day ordinal 1, 2024-12-30, is a Monday
DayName(dt_string) == WeekdayNames[(((ParseDatetime(dt_string) \div 24) - 1) % 7) + 1]

\* dt.hour
HourOf(dt_string) == ParseDatetime(dt_string) % 24

\* the events that carry a created_at
TimedEvents(event_list) ==
    SelectSeq(event_list, LAMBDA e : TruthyValue(DGet(e, "created_at", NoneValue)))

\* patterns that are returned for an empty list of events as well
CalculateProductivityPatternsOfAny(enabled, event_list) ==
    IF ~enabled THEN Missing
    ELSE Some([ by_day |-> [d \in 1..7 |-> 0], by_hour |-> [h \in 0..23 |-> 0],
                most_active_day |-> "Monday", most_active_hour |-> 0 ])

\* MetricsCalculator.calculate_productivity_patterns; by_day is held by the
\* position of the weekday in the dict, by_hour by the hour
CalculateProductivityPatterns(enabled, event_list) ==
    IF ~enabled \/ event_list = <<>> THEN Missing
    ELSE
    LET timed == TimedEvents(event_list)
        by_day == [d \in 1..7 |->
                     Cardinality({ i \in 1..Len(timed) :
                                     DayName(timed[i].created_at) = WeekdayNames[d] })]
        by_hour == [h \in 0..23 |->
                      Cardinality({ i \in 1..Len(timed) : HourOf(timed[i].created_at) = h })]
    IN  Some([ by_day |-> by_day,
               by_hour |-> by_hour,
               most_active_day |->
                   WeekdayNames[CHOOSE d \in 1..7 :
                                   /\ \A e \in 1..7 : by_day[e] <= by_day[d]
                                   /\ \A e \in 1..(d - 1) : by_day[e] < by_day[d]],
               most_active_hour |->
                   CHOOSE h \in 0..23 :
                       /\ \A g \in 0..23 : by_hour[g] <= by_hour[h]
                       /\ \A g \in 0..(h - 1) : by_hour[g] < by_hour[h] ])

\* MetricsCalculator.calculate_reaction_breakdown
CalculateReactionBreakdown(enabled, reactions) ==
    IF ~enabled \/ reactions = <<>> THEN Missing
    ELSE Some([ counts |-> CountKeys([i \in 1..Len(reactions) |->
                                         DGet(reactions[i], "content", "unknown")], <<>>),
                total |-> Len(reactions) ])

\* round(x, 2) of a float that is not negative; no value met here lies halfway
\* between two hundredths
Round2(x) == Ratio((200 * x.num + x.den) \div (2 * x.den), 100)

\* PRMetrics.to_dict
PrMetricsToDict(m) ==
    [ avg_commits_per_pr |-> Round2(m.avg_commits_per_pr),
      avg_time_to_merge_hours |-> Round2(m.avg_time_to_merge_hours),
      avg_time_to_first_review_hours |-> Round2(m.avg_time_to_first_review_hours),
      avg_review_iterations |-> Round2(m.avg_review_iterations),
      prs_merged_without_changes |-> m.prs_merged_without_changes,
      prs_with_requested_changes |-> m.prs_with_requested_changes ]

\* ReviewMetrics.to_dict
ReviewMetricsToDict(m) ==
    [ avg_review_turnaround_hours |-> Round2(m.avg_review_turnaround_hours),
      reviews_with_comments |-> m.reviews_with_comments,
      approvals |-> m.approvals,
      changes_requested |-> m.changes_requested ]

\* EngagementMetrics.to_dict
EngagementMetricsToDict(m) ==
    [ avg_response_time_hours |-> Round2(m.avg_response_time_hours),
      comment_to_code_ratio |-> Round2(m.comment_to_code_ratio),
      collaboration_score |-> Round2(m.collaboration_score) ]

\* a dict without key
EmptyDict == [key \in {} |-> TRUE]

\* result[key] = value of a result that is not None; nothing for None
KeyIf(key, result, value) == IF result # Missing THEN key :> value ELSE EmptyDict

\* MetricsCalculator.calculate_all
CalculateAll(config, prs, reviews, commit_list, comments, event_list, reactions,
             reviews_on_authored_prs, reviewed_prs) ==
    LET pr_metrics ==
            CalculatePrMetrics(config.pr_metrics, prs, reviews, reviews_on_authored_prs)
        review_metrics ==
            CalculateReviewMetrics(config.review_metrics, reviews, reviewed_prs)
        engagement_metrics ==
            CalculateEngagementMetrics(config.engagement_metrics, commit_list, comments,
                                       Len(reviews), Len(reactions))
        productivity ==
            CalculateProductivityPatterns(config.productivity_patterns, event_list)
        reaction_breakdown ==
            IF reactions # <<>>
            THEN CalculateReactionBreakdown(config.reaction_breakdown, reactions)
            ELSE Missing
    IN  KeyIf("pr_metrics", pr_metrics, PrMetricsToDict(pr_metrics[1]))
        @@ KeyIf("review_metrics", review_metrics, ReviewMetricsToDict(review_metrics[1]))
        @@ KeyIf("engagement_metrics", engagement_metrics,
                 EngagementMetricsToDict(engagement_metrics[1]))
        @@ KeyIf("productivity_by_day", productivity, productivity[1].by_day)
        @@ KeyIf("productivity_by_hour", productivity, productivity[1].by_hour)
        @@ KeyIf("reaction_breakdown", reaction_breakdown, reaction_breakdown[1])

\* an event record
MetricEvents ==
    { [type |-> "PushEvent", created_at |-> HourStamp(1, 0)],
      [type |-> "PushEvent", created_at |-> HourStamp(2, 13)],
      [type |-> "PushEvent"] }

\* a reaction record
MetricReactions == { [content |-> "+1"], [user |-> Username] }

\* the records a list of calculate_all may get one more of
MetricInputs ==
    [ prs |-> { MetricPr(1, TRUE) },
      reviews |-> { MetricReview(1, Username, <<"APPROVED", 3>>) },
      commits |-> { [repository |-> "org/a"] },
      comments |-> { [repository |-> "org/a", issue_number |-> 1,
                      created_at |-> HourStamp(1, 0)] },
      events |-> MetricEvents,
      reactions |-> MetricReactions ]

\* the six lists, by name
MetricLists ==
    [ prs |-> ma_prs, reviews |-> ma_reviews, commits |-> ma_commits,
      comments |-> ma_comments, events |-> ma_events, reactions |-> ma_reactions ]

AllMetricsInit ==
    /\ ma_pc = "config"
    /\ ma_config = DefaultMetricsConfig
    /\ ma_prs = <<>>
    /\ ma_reviews = <<>>
    /\ ma_commits = <<>>
    /\ ma_comments = <<>>
    /\ ma_events = <<>>
    /\ ma_reactions = <<>>
    /\ ma_returned = Missing
    /\ ma_all = Missing

\* the configuration file sets the flags
ConfigureMetrics ==
    /\ ma_pc = "config"
    /\ ma_config' \in [MetricFlags -> BOOLEAN]
    /\ ma_pc' = "input"
    /\ UNCHANGED <<ma_prs, ma_reviews, ma_commits, ma_comments, ma_events, ma_reactions,
                   ma_returned, ma_all>>

\* the caller puts one more record into one of the lists; reactions that are
\* None are the empty list to every test the calculations make
SupplyMetricRecord ==
    /\ ma_pc = "input"
    /\ \E kind \in DOMAIN MetricInputs, r \in UNION { MetricInputs[k] : k \in DOMAIN MetricInputs } :
          /\ r \in MetricInputs[kind]
          /\ Len(MetricLists[kind]) < MaxMetricRecords
          /\ LET lists == [MetricLists EXCEPT ![kind] = Append(@, r)]
             IN  /\ ma_prs' = lists.prs
                 /\ ma_reviews' = lists.reviews
                 /\ ma_commits' = lists.commits
                 /\ ma_comments' = lists.comments
                 /\ ma_events' = lists.events
                 /\ ma_reactions' = lists.reactions
    /\ UNCHANGED <<ma_pc, ma_config, ma_returned, ma_all>>

\* each of the five calculations, called on the lists
CallEachCalculation ==
    /\ ma_pc = "input"
    /\ ma_returned' =
          Some([ pr_metrics |->
                     CalculatePrMetrics(ma_config.pr_metrics, ma_prs, ma_reviews, <<>>),
                 review_metrics |->
                     CalculateReviewMetrics(ma_config.review_metrics, ma_reviews, <<>>),
                 engagement_metrics |->
                     CalculateEngagementMetrics(ma_config.engagement_metrics, ma_commits,
                                                ma_comments, Len(ma_reviews),
                                                Len(ma_reactions)),
                 productivity |->
                     CalculateProductivityPatterns(ma_config.productivity_patterns,
                                                   ma_events),
                 reaction_breakdown |->
                     CalculateReactionBreakdown(ma_config.reaction_breakdown,
                                                ma_reactions) ])
    /\ ma_pc' = "called"
    /\ UNCHANGED <<ma_config, ma_prs, ma_reviews, ma_commits, ma_comments, ma_events,
                   ma_reactions, ma_all>>

\* calculate_all(prs, reviews, commits, comments, events, reactions, [], [])
CalculateAllCall ==
    /\ ma_pc = "called"
    /\ ma_all' = Some(CalculateAll(ma_config, ma_prs, ma_reviews, ma_commits, ma_comments,
                                   ma_events, ma_reactions, <<>>, <<>>))
    /\ ma_pc' = "done"
    /\ UNCHANGED <<ma_config, ma_prs, ma_reviews, ma_commits, ma_comments, ma_events,
                   ma_reactions, ma_returned>>

\* calculate_all is not running
AllMetricsIdle ==
    /\ ma_pc = "idle"
    /\ ma_config = DefaultMetricsConfig
    /\ ma_prs = <<>>
    /\ ma_reviews = <<>>
    /\ ma_commits = <<>>
    /\ ma_comments = <<>>
    /\ ma_events = <<>>
    /\ ma_reactions = <<>>
    /\ ma_returned = Missing
    /\ ma_all = Missing

\* C20: the PR, review, productivity and reaction calculations return None
\* exactly when their flag is off or their list is empty; the engagement
\* calculation returns None exactly when its flag is off, with
\* comment_to_code_ratio 0 when there is no commit; calculate_all holds the
\* key of a group exactly when the group's result is not None.
C20_NoneWhenDisabledOrEmpty ==
    ma_pc = "done" =>
        LET returned == ma_returned[1]
            keys == DOMAIN ma_all[1]
        IN  /\ returned.pr_metrics = Missing
                  <=> (~ma_config.pr_metrics \/ Len(ma_prs) = 0)
            /\ returned.review_metrics = Missing
                  <=> (~ma_config.review_metrics \/ Len(ma_reviews) = 0)
            /\ returned.productivity = Missing
                  <=> (~ma_config.productivity_patterns \/ Len(ma_events) = 0)
            /\ returned.reaction_breakdown = Missing
                  <=> (~ma_config.reaction_breakdown \/ Len(ma_reactions) = 0)
            /\ returned.engagement_metrics = Missing <=> ~ma_config.engagement_metrics
            /\ (ma_config.engagement_metrics /\ Len(ma_commits) = 0) =>
                  returned.engagement_metrics[1].comment_to_code_ratio.num = 0
            /\ "pr_metrics" \in keys <=> returned.pr_metrics # Missing
            /\ "review_metrics" \in keys <=> returned.review_metrics # Missing
            /\ "engagement_metrics" \in keys <=> returned.engagement_metrics # Missing
            /\ "productivity_by_day" \in keys <=> returned.productivity # Missing
            /\ "productivity_by_hour" \in keys <=> returned.productivity # Missing
            /\ "reaction_breakdown" \in keys <=> returned.reaction_breakdown # Missing

\* review metrics switched off, no PR, no commit and no reaction, with a
\* review, a comment and an event: the engagement and productivity keys only
C20_Witness ==
    /\ ma_pc = "done"
    /\ ma_config = [DefaultMetricsConfig EXCEPT !["review_metrics"] = FALSE]
    /\ ma_prs = <<>> /\ ma_commits = <<>> /\ ma_reactions = <<>>
    /\ Len(ma_reviews) = 1 /\ Len(ma_comments) = 1 /\ Len(ma_events) = 1
    /\ DOMAIN ma_all[1]
         = { "engagement_metrics", "productivity_by_day", "productivity_by_hour" }
    /\ ma_all[1]["engagement_metrics"].comment_to_code_ratio.num = 0

\* ------------------------------------------- metrics: collaboration score
VARIABLES
    cs_pc,          \* "input" | "done"
    cs_reviews,     \* calculate_engagement_metrics' reviews: a list or None
    cs_comments,    \* its comments
    cs_reactions,   \* its reactions: a list or None
    cs_result       \* what it returned

scoreVars == <<cs_pc, cs_reviews, cs_comments, cs_reactions, cs_result>>

ScoreInit ==
    /\ cs_pc = "input"
    /\ cs_reviews = Missing
    /\ cs_comments = <<>>
    /\ cs_reactions = Missing
    /\ cs_result = Missing

\* the caller passes a list for reviews, or puts one more review into it
SupplyScoreReview ==
    /\ cs_pc = "input"
    /\ cs_reviews' = IF cs_reviews = Missing THEN Some(<<>>)
                     ELSE Some(Append(cs_reviews[1], [id |-> Len(cs_reviews[1]) + 1]))
    /\ LenOrZero(cs_reviews') <= MaxScoreRecords
    /\ UNCHANGED <<cs_pc, cs_comments, cs_reactions, cs_result>>

\* the caller puts one more comment into comments
SupplyScoreComment ==
    /\ cs_pc = "input"
    /\ Len(cs_comments) < MaxScoreRecords
    /\ cs_comments' = Append(cs_comments, [id |-> Len(cs_comments) + 1])
    /\ UNCHANGED <<cs_pc, cs_reviews, cs_reactions, cs_result>>

\* the caller passes a list for reactions, or puts one more reaction into it
SupplyScoreReaction ==
    /\ cs_pc = "input"
    /\ cs_reactions' = IF cs_reactions = Missing THEN Some(<<>>)
                       ELSE Some(Append(cs_reactions[1], [id |-> Len(cs_reactions[1]) + 1]))
    /\ LenOrZero(cs_reactions') <= MaxScoreRecords
    /\ UNCHANGED <<cs_pc, cs_reviews, cs_comments, cs_result>>

\* calculate_engagement_metrics([], comments, reviews, reactions),
\* engagement_metrics being enabled
CalculateScoreCall ==
    /\ cs_pc = "input"
    /\ cs_result' = CalculateEngagementMetrics(TRUE, <<>>, cs_comments,
                                               LenOrZero(cs_reviews),
                                               LenOrZero(cs_reactions))
    /\ cs_pc' = "done"
    /\ UNCHANGED <<cs_reviews, cs_comments, cs_reactions>>

\* no collaboration score is being taken
ScoreIdle ==
    /\ cs_pc = "idle"
    /\ cs_reviews = Missing
    /\ cs_comments = <<>>
    /\ cs_reactions = Missing
    /\ cs_result = Missing

\* the number of records of a list that may be None
CsCount(list_or_none) ==
    IF list_or_none = Missing THEN 0
    ELSE Cardinality({ i \in 1..MaxScoreRecords + 1 : i \in DOMAIN list_or_none[1] })

\* C21: for any numbers of reviews, comments and reactions, zero and None for
\* reviews or reactions included, collaboration_score is 3.0 times the number
\* of reviews plus the number of comments plus 0.5 times the number of
\* reactions: twice the score is 6 * reviews + 2 * comments + reactions.
C21_CollaborationScoreFormula ==
    cs_pc = "done" =>
        /\ cs_result # Missing
        /\ 2 * cs_result[1].collaboration_score.num
             = cs_result[1].collaboration_score.den
                 * (6 * CsCount(cs_reviews) + 2 * Len(cs_comments) + CsCount(cs_reactions))

\* the score of the unit test: one review, two comments, two reactions give 6
C21_Witness ==
    /\ cs_pc = "done"
    /\ CsCount(cs_reviews) = 1 /\ Len(cs_comments) = 2 /\ CsCount(cs_reactions) = 2
    /\ SameRatio(cs_result[1].collaboration_score, Ratio(6, 1))

\* ------------------------------------------------- GitHubClient and cache
VARIABLES
    gh_pc,          \* "new" | "ready"
    gh_mode,        \* the client's cache: "none" | "disabled" | "enabled"
    gh_now,         \* time.time(), in half seconds
    gh_last,        \* GitHubClient._last_request_time
    gh_files,       \* the cache directory: path -> [data, mtime]
    gh_requests,    \* calls of api and search made so far
    gh_idle,        \* half seconds the caller has spent between calls
    gh_real,        \* host calls made so far
    gh_hit,         \* the latest call was answered from the cache
    gh_returned,    \* what the latest call returned or raised
    gh_plain,       \* what a client without cache gets for the same request
    gh_prev_end,    \* when the host call before the latest one ended; 0: none
    gh_start        \* when the latest host call started; 0: none

clientVars ==
    <<gh_pc, gh_mode, gh_now, gh_last, gh_files, gh_requests, gh_idle, gh_real, gh_hit,
      gh_returned, gh_plain, gh_prev_end, gh_start>>

\* GitHubClient.request_delay: 1.0 second, in half seconds
RequestDelay == 2

\* CacheConfig.ttl_hours, as a number of half seconds
TtlTicks == 3

\* how long the host takes to answer, in half seconds
CallDurations == {1, 3}

\* the api requests of the fetchers: endpoint, paginate, jq
ApiRequests ==
    { [endpoint |-> "/users/me/events", paginate |-> TRUE, jq |-> None],
      [endpoint |-> "/repos/org/a/pulls/1/reviews", paginate |-> TRUE, jq |-> None],
      [endpoint |-> "/repos/org/a/pulls/1/reviews", paginate |-> FALSE, jq |-> None],
      [endpoint |-> "/repos/org/a/pulls/2/reviews", paginate |-> TRUE, jq |-> None],
      [endpoint |-> "/repos/org/a/issues/1/comments", paginate |-> TRUE, jq |-> None],
      [endpoint |-> "/search/issues?q=author:me", paginate |-> FALSE, jq |-> None],
      [endpoint |-> "/users/me/events", paginate |-> TRUE, jq |-> ".[]"] }

\* the search requests: search_type, query, limit
SearchRequests == { [search_type |-> "prs", query |-> "author:me", limit |-> 100] }

\* a JSON array and a JSON object, as a line of output
JsonArray(items) == [array |-> items]
JsonObject(name) == [object |-> name]

\* what gh prints for an api request: the exit code and the lines of stdout.
\* The events take two pages, the reviews one page of two and, unpaginated,
\* a page of one; the second PR has an empty array of reviews; the comments
\* give no output; the issue search fails; the jq filter prints one object a
\* line
HostApi(request) ==
    IF request.jq # None
    THEN [returncode |-> 0, stdout |-> <<JsonObject("e1"), JsonObject("e2")>>]
    ELSE IF request.endpoint = "/users/me/events"
    THEN [returncode |-> 0,
          stdout |-> <<JsonArray(<<"e1">>), JsonArray(<<"e2">>)>>]
    ELSE IF request.endpoint = "/repos/org/a/pulls/1/reviews"
    THEN [returncode |-> 0,
          stdout |-> IF request.paginate THEN <<JsonArray(<<"r1", "r2">>)>>
                     ELSE <<JsonArray(<<"r1">>)>>]
    ELSE IF request.endpoint = "/repos/org/a/pulls/2/reviews"
    THEN [returncode |-> 0, stdout |-> <<JsonArray(<<>>)>>]
    ELSE IF request.endpoint = "/repos/org/a/issues/1/comments"
    THEN [returncode |-> 0, stdout |-> <<>>]
    ELSE [returncode |-> 1, stdout |-> <<>>]

\* what gh prints for a search request
HostSearch(request) == [returncode |-> 0, stdout |-> <<JsonArray(<<"p1">>)>>]

\* a call that returned data, a call that raised GitHubClientError
Returns(data) == [raised |-> FALSE, data |-> data]
Raises == [raised |-> TRUE]

RECURSIVE MergeLines(_, _)
\* items.extend(parsed) for a list, items.append(parsed) for anything else
MergeLines(lines, items) ==
    IF lines = <<>> THEN items
    ELSE MergeLines(Tail(lines),
                    IF "array" \in DOMAIN Head(lines)
                    THEN items \o Head(lines).array
                    ELSE Append(items, Head(lines).object))

\* json.loads(output): one JSON document, or JSONDecodeError for more
JsonLoads(stdout) ==
    IF Len(stdout) = 1
    THEN Returns(IF "array" \in DOMAIN stdout[1] THEN stdout[1].array
                 ELSE stdout[1].object)
    ELSE Raises

\* GitHubClient.api from the end of subprocess.run to the parsed data
ParseApiOutput(result, paginate) ==
    IF result.returncode # 0 THEN Raises
    ELSE IF result.stdout = <<>> THEN Returns(<<>>)
    ELSE IF paginate /\ Len(result.stdout) > 1 /\ "array" \notin DOMAIN result.stdout[1]
    THEN Returns(MergeLines(result.stdout, <<>>))
    ELSE JsonLoads(result.stdout)

\* GitHubClient.search from the end of subprocess.run to the parsed data
ParseSearchOutput(result) ==
    IF result.returncode # 0 THEN Raises
    ELSE IF result.stdout = <<>> THEN Returns(<<>>)
    ELSE JsonLoads(result.stdout)

\* a cache key made of the endpoint and the jq filter only
GetCacheKeyOfEndpoint(request) ==
    <<request.endpoint>>
    \o (IF request.jq # None THEN <<"jq=", request.jq>> ELSE <<>>)

\* GitHubClient._get_cache_key for a GET request: the parts joined by "|"
GetCacheKey(request) ==
    <<request.endpoint>>
    \o (IF request.paginate THEN <<"paginate">> ELSE <<>>)
    \o (IF request.jq # None THEN <<"jq=", request.jq>> ELSE <<>>)

\* f"search|{search_type}|{query}|{limit}"
SearchCacheKey(request) == <<"search", request.search_type, request.query, request.limit>>

\* ResponseCache._get_cache_path: the file named by the md5 of the key
CachePath(key) == <<"md5", key>>

\* ResponseCache.get: the value found, and the directory afterwards (an
\* expired file is removed)
CacheGet(enabled, files, key, now) ==
    LET cache_file == CachePath(key)
    IN  IF ~enabled \/ cache_file \notin DOMAIN files
        THEN [value |-> Missing, files |-> files]
        ELSE IF now - files[cache_file].mtime > TtlTicks
        THEN [value |-> Missing,
              files |-> [f \in DOMAIN files \ {cache_file} |-> files[f]]]
        ELSE [value |-> Some(files[cache_file].data), files |-> files]

\* ResponseCache.set: the directory afterwards
CacheSet(enabled, files, key, data, now) ==
    IF ~enabled THEN files
    ELSE (CachePath(key) :> [data |-> data, mtime |-> now]) @@ files

\* GitHubClient._rate_limit_pause: the time it returns at
RateLimitPause(last_request_time, now) ==
    IF last_request_time > 0 /\ now - last_request_time < RequestDelay
    THEN now + (RequestDelay - (now - last_request_time))
    ELSE now

\* one call of api or search, common to both: look the key up, or pause, call
\* the host for `duration`, parse its output and store the data
ClientCall(key, result, outcome, duration) ==
    LET cached == IF gh_mode = "none" THEN [value |-> Missing, files |-> gh_files]
                  ELSE CacheGet(gh_mode = "enabled", gh_files, key, gh_now)
        started == RateLimitPause(gh_last, gh_now)
        ended == started + duration
    IN  /\ gh_requests' = gh_requests + 1
        /\ gh_plain' = outcome
        /\ IF cached.value # Missing
           THEN /\ gh_returned' = Returns(cached.value[1])
                /\ gh_hit' = TRUE
                /\ gh_files' = cached.files
                /\ UNCHANGED <<gh_now, gh_last, gh_real, gh_prev_end, gh_start>>
           ELSE /\ gh_returned' = outcome
                /\ gh_hit' = FALSE
                /\ gh_last' = started
                /\ gh_now' = ended
                /\ gh_real' = gh_real + 1
                /\ gh_prev_end' = IF gh_real > 0 THEN gh_now ELSE 0
                /\ gh_start' = started
                /\ gh_files' =
                      IF gh_mode # "none" /\ ~outcome.raised /\ result.stdout # <<>>
                      THEN CacheSet(gh_mode = "enabled", cached.files, key,
                                    outcome.data, ended)
                      ELSE cached.files
        /\ UNCHANGED <<gh_pc, gh_mode, gh_idle>>

ClientInit ==
    /\ gh_pc = "new"
    /\ gh_mode = "none"
    /\ gh_now = 1
    /\ gh_last = 0
    /\ gh_files = <<>>
    /\ gh_requests = 0
    /\ gh_idle = 0
    /\ gh_real = 0
    /\ gh_hit = FALSE
    /\ gh_returned = Raises
    /\ gh_plain = Raises
    /\ gh_prev_end = 0
    /\ gh_start = 0

\* GitHubClient(request_delay, timeout, cache): without cache, with a cache
\* that is disabled, with a cache that is enabled
CreateClient ==
    /\ gh_pc = "new"
    /\ gh_mode' \in {"none", "disabled", "enabled"}
    /\ gh_pc' = "ready"
    /\ UNCHANGED <<gh_now, gh_last, gh_files, gh_requests, gh_idle, gh_real, gh_hit,
                   gh_returned, gh_plain, gh_prev_end, gh_start>>

\* GitHubClient.api(endpoint, paginate, jq)
Api ==
    /\ gh_pc = "ready"
    /\ gh_requests < MaxRequests
    /\ \E request \in ApiRequests, duration \in CallDurations :
          ClientCall(GetCacheKey(request), HostApi(request),
                     ParseApiOutput(HostApi(request), request.paginate), duration)

\* GitHubClient.search(search_type, query, limit)
Search ==
    /\ gh_pc = "ready"
    /\ gh_requests < MaxRequests
    /\ \E request \in SearchRequests, duration \in CallDurations :
          ClientCall(SearchCacheKey(request), HostSearch(request),
                     ParseSearchOutput(HostSearch(request)), duration)

\* the caller works for half a second between two calls
CallerWorks ==
    /\ gh_pc = "ready"
    /\ gh_idle < MaxIdle
    /\ gh_idle' = gh_idle + 1
    /\ gh_now' = gh_now + 1
    /\ UNCHANGED <<gh_pc, gh_mode, gh_last, gh_files, gh_requests, gh_real, gh_hit,
                   gh_returned, gh_plain, gh_prev_end, gh_start>>

\* no client exists
ClientIdle ==
    /\ gh_pc = "idle"
    /\ gh_mode = "none"
    /\ gh_now = 1
    /\ gh_last = 0
    /\ gh_files = <<>>
    /\ gh_requests = 0
    /\ gh_idle = 0
    /\ gh_real = 0
    /\ gh_hit = FALSE
    /\ gh_returned = Raises
    /\ gh_plain = Raises
    /\ gh_prev_end = 0
    /\ gh_start = 0

\* C22: for the same host responses a call returns the same with the cache
\* enabled as without it; the cache changes only the number of host calls,
\* which without an enabled cache is the number of requests.
C22_CacheInvisible ==
    /\ gh_returned = gh_plain
    /\ gh_real <= gh_requests
    /\ gh_mode # "enabled" => (gh_real = gh_requests /\ ~gh_hit)

\* a request repeated with the cache enabled: answered from the cache, with
\* the data the host gives
C22_Witness ==
    /\ gh_mode = "enabled"
    /\ gh_hit
    /\ gh_real < gh_requests
    /\ ~gh_returned.raised /\ gh_returned.data # <<>>
    /\ gh_returned = gh_plain

\* C28: every host call made by api or search starts no earlier than
\* request_delay after the end of the host call before it.
C28_DelayFromEndOfPreviousCall ==
    gh_prev_end > 0 => gh_start >= gh_prev_end + RequestDelay

\* ------------------------------------------------------- get_period_range
VARIABLES
    pd_pc,          \* "input" | "called" | "done"
    pd_year,        \* get_period_range's year
    pd_type,        \* its period_type
    pd_value,       \* its period_value
    pd_result       \* what it returned or raised

periodVars == <<pd_pc, pd_year, pd_type, pd_value, pd_result>>

\* years: a century that is no leap year, a century that is one, a common
\* year, a leap year
PeriodYears == {1900, 2000, 2023, 2024}

\* datetime.date(year, month, day)
Date(year, month, day) == <<year, month, day>>

\* calendar.mdays[1:]: the days of the months of a common year
Mdays == <<31, 28, 31, 30, 31, 30, 31, 31, 30, 31, 30, 31>>

\* a leap year rule without the exception of the centuries
IsLeapJulian(year) == year % 4 = 0

\* calendar.isleap
IsLeap(year) == year % 4 = 0 /\ (year % 100 # 0 \/ year % 400 = 0)

\* calendar.monthrange(year, month)[1]
LastDay(year, month) == Mdays[month] + (IF month = 2 /\ IsLeap(year) THEN 1 ELSE 0)

\* the quarters dict of get_period_range
Quarters(year) ==
    << <<Date(year, 1, 1), Date(year, 3, 31)>>,
       <<Date(year, 4, 1), Date(year, 6, 30)>>,
       <<Date(year, 7, 1), Date(year, 9, 30)>>,
       <<Date(year, 10, 1), Date(year, 12, 31)>> >>

\* get_period_range: the pair returned, or ValueError
GetPeriodRange(year, period_type, period_value) ==
    IF period_type = "monthly"
    THEN IF ~(1 <= period_value /\ period_value <= 12)
         THEN [raised |-> TRUE]
         ELSE [raised |-> FALSE,
               range |-> <<Date(year, period_value, 1),
                           Date(year, period_value, LastDay(year, period_value))>>]
    ELSE IF ~(1 <= period_value /\ period_value <= 4)
         THEN [raised |-> TRUE]
         ELSE [raised |-> FALSE, range |-> Quarters(year)[period_value]]

PeriodInit ==
    /\ pd_pc = "input"
    /\ pd_year = 2024
    /\ pd_type = "monthly"
    /\ pd_value = 1
    /\ pd_result = Missing

\* the command line names a year, a period type and a month or quarter
SupplyPeriod ==
    /\ pd_pc = "input"
    /\ pd_year' \in PeriodYears
    /\ pd_type' \in {"monthly", "quarterly"}
    /\ pd_value' \in (0 - 1)..MaxPeriodValue
    /\ pd_pc' = "called"
    /\ UNCHANGED pd_result

\* get_period_range(year, period_type, period_value)
GetPeriodRangeCall ==
    /\ pd_pc = "called"
    /\ pd_result' = Some(GetPeriodRange(pd_year, pd_type, pd_value))
    /\ pd_pc' = "done"
    /\ UNCHANGED <<pd_year, pd_type, pd_value>>

\* get_period_range is not running
PeriodIdle ==
    /\ pd_pc = "idle"
    /\ pd_year = 2024
    /\ pd_type = "monthly"
    /\ pd_value = 1
    /\ pd_result = Missing

\* the last calendar day of a month of the Gregorian calendar
PdLastOfMonth(year, month) ==
    IF month \in {4, 6, 9, 11} THEN 30
    ELSE IF month # 2 THEN 31
    ELSE IF year % 400 = 0 THEN 29
    ELSE IF year % 100 = 0 THEN 28
    ELSE IF year % 4 = 0 THEN 29
    ELSE 28

\* C23: a monthly range of month 1..12 is the first and the last calendar day
\* of the month (29 February in leap years); a quarterly range of quarter 1..4
\* is Jan 1-Mar 31, Apr 1-Jun 30, Jul 1-Sep 30 or Oct 1-Dec 31; a month
\* outside 1..12 and a quarter outside 1..4 raise and return no range.
C23_PeriodRange ==
    pd_pc = "done" =>
        LET result == pd_result[1]
        IN  IF pd_type = "monthly"
            THEN IF pd_value \in 1..12
                 THEN /\ ~result.raised
                      /\ result.range[1] = <<pd_year, pd_value, 1>>
                      /\ result.range[2]
                           = <<pd_year, pd_value, PdLastOfMonth(pd_year, pd_value)>>
                 ELSE result.raised /\ "range" \notin DOMAIN result
            ELSE IF pd_value \in 1..4
                 THEN /\ ~result.raised
                      /\ result.range[1] = <<pd_year, 3 * pd_value - 2, 1>>
                      /\ result.range[2]
                           = <<pd_year, 3 * pd_value,
                               IF pd_value \in {1, 4} THEN 31 ELSE 30>>
                 ELSE result.raised /\ "range" \notin DOMAIN result

\* February of 1900, which is no leap year: 1 to 28 February
C23_Witness ==
    /\ pd_pc = "done"
    /\ pd_year = 1900 /\ pd_type = "monthly" /\ pd_value = 2
    /\ pd_result[1].range = << <<1900, 2, 1>>, <<1900, 2, 28>> >>

\* ------------------------------------- BaseFetcher: the default unique key
VARIABLES
    dd_pc,          \* "input" | "once" | "twice"
    dd_events,      \* the list handed to _deduplicate
    dd_once,        \* _deduplicate(events)
    dd_twice        \* _deduplicate(_deduplicate(events))

dedupVars == <<dd_pc, dd_events, dd_once, dd_twice>>

\* the identifying fields a record may carry; n tells the records apart
DedupRecords(n) ==
    { [id |-> i, sha |-> s, url |-> u, n |-> n] :
        i \in {Absent, "", "i"}, s \in {Absent, "a", "b"}, u \in {Absent, "u"} }

\* a key that prefers the sha to the url and the url to the id
GetEventIdShaFirst(event) == Or(event.sha, Or(event.url, event.id))

\* BaseFetcher._get_event_id:
\* event.get("id") or event.get("sha") or event.get("url")
BaseGetEventId(event) == Or(event.id, Or(event.sha, event.url))

\* BaseFetcher._deduplicate's loop with the default key
RECURSIVE BaseDedupLoop(_, _, _)
BaseDedupLoop(event_list, seen, unique) ==
    IF event_list = <<>> THEN unique
    ELSE LET event == Head(event_list)
             event_id == BaseGetEventId(event)
         IN  IF Truthy(event_id) /\ event_id \notin seen
             THEN BaseDedupLoop(Tail(event_list), seen \cup {event_id},
                                Append(unique, event))
             ELSE IF ~Truthy(event_id)
             THEN BaseDedupLoop(Tail(event_list), seen, Append(unique, event))
             ELSE BaseDedupLoop(Tail(event_list), seen, unique)

\* a _deduplicate that puts each kept record in front of the earlier ones
BaseDeduplicatePrepending(event_list) == Reverse(BaseDedupLoop(event_list, {}, <<>>))

\* BaseFetcher._deduplicate with the default key
BaseDeduplicate(event_list) == BaseDedupLoop(event_list, {}, <<>>)

DedupInit ==
    /\ dd_pc = "input"
    /\ dd_events = <<>>
    /\ dd_once = <<>>
    /\ dd_twice = <<>>

\* one more record is in the list a fetch has collected
SupplyDedupRecord ==
    /\ dd_pc = "input"
    /\ Len(dd_events) < MaxDedupRecords
    /\ \E r \in DedupRecords(Len(dd_events) + 1) : dd_events' = Append(dd_events, r)
    /\ UNCHANGED <<dd_pc, dd_once, dd_twice>>

\* self._deduplicate(all_events)
DeduplicateCall ==
    /\ dd_pc = "input"
    /\ dd_once' = BaseDeduplicate(dd_events)
    /\ dd_pc' = "once"
    /\ UNCHANGED <<dd_events, dd_twice>>

\* _deduplicate applied to its own output
DeduplicateAgain ==
    /\ dd_pc = "once"
    /\ dd_twice' = BaseDeduplicate(dd_once)
    /\ dd_pc' = "twice"
    /\ UNCHANGED <<dd_events, dd_once>>

\* no _deduplicate is under study
DedupIdle ==
    /\ dd_pc = "idle"
    /\ dd_events = <<>>
    /\ dd_once = <<>>
    /\ dd_twice = <<>>

\* C24: _deduplicate applied to a list that _deduplicate returned gives the
\* same records in the same order.
C24_DeduplicateIdempotent ==
    dd_pc = "twice" => dd_twice = dd_once

\* the first pass dropped a repeated key and kept a record without a key, and
\* the second pass returned the two or more records it was given
C24_Witness ==
    /\ dd_pc = "twice"
    /\ Len(dd_once) < Len(dd_events)
    /\ Len(dd_once) >= 2
    /\ \E i \in 1..Len(dd_once) : ~Truthy(BaseGetEventId(dd_once[i]))
    /\ dd_twice = dd_once

\* a record of the input is in the deduplicated list
DdKept(i) == \E j \in 1..Len(dd_once) : dd_once[j] = dd_events[i]

\* C25 as stated: a record that has a sha is keyed by its sha, so two records
\* with different sha values are both kept, whatever their id
C25_ShaPreferredOverId ==
    dd_pc # "input" =>
        \A i, j \in 1..Len(dd_events) :
            ( /\ i < j
              /\ Truthy(dd_events[i].sha) /\ Truthy(dd_events[j].sha)
              /\ dd_events[i].sha # dd_events[j].sha
              /\ \A k \in 1..(j - 1) : dd_events[k].sha # dd_events[j].sha )
            => DdKept(j)

\* the default key read off the record: the id when it is truthy, else the
\* sha when it is truthy, else the url
DdKey(r) ==
    IF r.id \notin {Absent, None, ""} THEN r.id
    ELSE IF r.sha \notin {Absent, None, ""} THEN r.sha
    ELSE r.url

\* C25: the default unique key of a record is chosen in the preference order
\* id, then sha, then url: a record with an id is keyed by its id, so of two
\* records with the same id only the first is kept even when their sha values
\* differ, and two records without an id and with different sha values are
\* both kept.
C25_IdPreferredOverSha ==
    dd_pc # "input" =>
        /\ \A i \in 1..Len(dd_events) :
              DdKept(i) <=>
                  \/ DdKey(dd_events[i]) \in {Absent, None, ""}
                  \/ \A k \in 1..(i - 1) : DdKey(dd_events[k]) # DdKey(dd_events[i])
        /\ \A i, j \in 1..Len(dd_events) :
              ( /\ i < j
                /\ Truthy(dd_events[i].id)
                /\ dd_events[i].id = dd_events[j].id )
              => ~DdKept(j)
        /\ \A i, j \in 1..Len(dd_events) :
              ( /\ i < j
                /\ ~Truthy(dd_events[i].id) /\ ~Truthy(dd_events[j].id)
                /\ Truthy(dd_events[i].sha) /\ Truthy(dd_events[j].sha)
                /\ \A k \in 1..(j - 1) :
                      ~Truthy(dd_events[k].id) /\ dd_events[k].sha # dd_events[j].sha )
              => DdKept(j)

\* two records with the same id and different sha values: only the first is
\* returned
C25_Witness ==
    /\ dd_pc = "once"
    /\ Len(dd_events) = 2
    /\ Truthy(dd_events[1].id) /\ dd_events[1].id = dd_events[2].id
    /\ Truthy(dd_events[1].sha) /\ Truthy(dd_events[2].sha)
    /\ dd_events[1].sha # dd_events[2].sha
    /\ dd_once = <<dd_events[1]>>

\* ------------------------------------ fetch_period: windows and calls
\* the windows _iter_weeks has yielded so far: fetch_period calls _fetch_range
\* on each as soon as it is yielded
IterWeeks == [k \in 1..Len(WeekCalls) |-> <<WeekCalls[k].start, WeekCalls[k].end>>]

\* C26: the windows _iter_weeks yields are consecutive and ascending, never
\* overlap, and cover every day of [start, end] exactly once; every window is
\* 7 days long except possibly the last, which stops at end; a range whose
\* start is after its end yields no window.
C26_IterWeeksPartition ==
    LET w == IterWeeks
    IN  /\ Len(w) > 0 => w[1][1] = f_start
        /\ \A k \in 1..Len(w) :
              /\ w[k][1] <= w[k][2]
              /\ w[k][2] <= f_end
              /\ w[k][2] - w[k][1] + 1 <= 7
              /\ w[k][2] - w[k][1] + 1 < 7 => (k = Len(w) /\ w[k][2] = f_end)
              /\ k < Len(w) => w[k + 1][1] = w[k][2] + 1
        /\ f_pc = "done" =>
              /\ \A d \in f_start..f_end :
                    Cardinality({k \in 1..Len(w) : w[k][1] <= d /\ d <= w[k][2]}) = 1
              /\ \A k \in 1..Len(w) :
                    \A d \in w[k][1]..w[k][2] : d \in f_start..f_end
              /\ f_start > f_end => w = <<>>

\* a range of 8 days or more: a full window of 7 days, then a shorter last one
C26_Witness ==
    /\ f_pc = "done"
    /\ Len(IterWeeks) = 2
    /\ IterWeeks[1] = <<f_start, f_start + 6>>
    /\ IterWeeks[2][1] = f_start + 7
    /\ IterWeeks[2][2] = f_end
    /\ IterWeeks[2][2] - IterWeeks[2][1] + 1 < 7

\* the _fetch_range calls made for window k
CallsOf(k, mode) == SelectSeq(f_log, LAMBDA c : c.win = k /\ c.mode = mode)

\* the calls fetch_period has made are one per window, plus one per day of
\* each window whose weekly result reached the threshold
ExactCalls ==
    /\ \A i \in 1..Len(f_log) :
          /\ f_log[i].win \in 1..(Len(f_windows) + 1)
          /\ f_log[i].mode = "day" => f_log[i].start = f_log[i].end
    /\ \A k \in 1..Len(f_windows) :
          LET week == CallsOf(k, "week")
              days == CallsOf(k, "day")
          IN  /\ Len(week) = 1
              /\ week[1].start = f_windows[k].start /\ week[1].end = f_windows[k].end
              /\ IF Len(week[1].events) >= f_threshold
                 THEN /\ Len(days) = week[1].end - week[1].start + 1
                      /\ \A i \in 1..Len(days) : days[i].start = week[1].start + i - 1
                 ELSE days = <<>>
    /\ f_pc = "done" =>
          /\ \A i \in 1..Len(f_log) : f_log[i].win \in 1..Len(f_windows)
          /\ Len(f_windows) = NumWindows
          /\ f_start > f_end => (f_log = <<>> /\ f_result = <<>>)

\* C30: fetch_period terminates for every date range, having made exactly one
\* _fetch_range call per window plus one call per day of each window that
\* reached the threshold: a day at or above the threshold is not divided
\* further, a window below the threshold has no daily call, and a range whose
\* start is after its end makes no call and returns the empty list.
C30_TerminatesWithExactCalls == <>(f_pc = "done") /\ []ExactCalls

\* a window reached the threshold, one of its days did so too, and
\* fetch_period returned after one weekly call and one call per day
C30_Witness ==
    /\ f_pc = "done"
    /\ \E k \in 1..Len(f_windows) :
          /\ Len(CallsOf(k, "week")) = 1
          /\ Len(f_windows[k].weekly) >= f_threshold
          /\ Len(CallsOf(k, "day")) = f_windows[k].end - f_windows[k].start + 1
          /\ \E i \in 1..Len(CallsOf(k, "day")) :
                Len(CallsOf(k, "day")[i].events) >= f_threshold
    /\ \E k \in 1..Len(f_windows) :
          Len(f_windows[k].weekly) < f_threshold /\ CallsOf(k, "day") = <<>>

\* ----------------------------------------------------------- EventsFetcher
VARIABLES
    ev_end,         \* fetch_period's end_date (start_date is day 1)
    ev_threshold,   \* self.high_activity_threshold
    ev_feed,        \* what /users/{username}/events returns
    ev_caching,     \* the client was built with an enabled cache
    ev_cache,       \* the cached answer to the endpoint, if any
    ev_pc,          \* "week" | "days" | "done"
    ev_cur,         \* _iter_weeks' current
    ev_day,         \* _fetch_week_by_days' current
    ev_daily,       \* _fetch_week_by_days' daily_events
    ev_all,         \* fetch_period's all_events
    ev_result,      \* what fetch_period returned
    ev_calls,       \* every _fetch_range call: range, whether the host was asked
    ev_failures     \* host calls that failed

eventVars == <<ev_end, ev_threshold, ev_feed, ev_caching, ev_cache, ev_pc, ev_cur,
               ev_day, ev_daily, ev_all, ev_result, ev_calls, ev_failures>>

\* the days on which the events of the feed were created; 0: no created_at
FeedDays == {0, 1, 3, 8}

\* an event of the feed
FeedEvent(n, d) ==
    [ id |-> n,
      created_at |-> IF d = 0 THEN Missing ELSE Some(IsoTimestamp(d)) ]

\* the feeds the host may hold
Feeds ==
    UNION { { [i \in 1..n |-> FeedEvent(i, days[i])] : days \in [1..n -> FeedDays] } :
            n \in 0..MaxFeedEvents }

\* EventsFetcher._fetch_range: the filter of the full list by date range
FilterFeed(event_list, start, end) ==
    SelectSeq(event_list, LAMBDA event :
        LET event_date_str == Prefix10(GetOpt(event.created_at, EmptyStr))
        IN  /\ event_date_str # EmptyStr
            /\ StrBetween(IsoFormat(start), event_date_str, IsoFormat(end)))

\* EventsFetcher._get_event_id
EventsGetEventId(event) == event.id

\* BaseFetcher._deduplicate with the id of the event as the key
RECURSIVE EventsDedupLoop(_, _, _)
EventsDedupLoop(event_list, seen, unique) ==
    IF event_list = <<>> THEN unique
    ELSE LET event == Head(event_list)
             event_id == EventsGetEventId(event)
         IN  IF event_id \notin seen
             THEN EventsDedupLoop(Tail(event_list), seen \cup {event_id},
                                  Append(unique, event))
             ELSE EventsDedupLoop(Tail(event_list), seen, unique)

\* self.gh.api(f"/users/{self.username}/events", paginate=True) inside
\* _fetch_range's try/except: a cached answer is returned without asking the
\* host; a host failure gives []; an empty answer is not cached
EventsApi(fails) ==
    IF ev_caching /\ ev_cache # Missing
    THEN [host |-> FALSE, events |-> ev_cache[1], cache |-> ev_cache]
    ELSE IF fails
    THEN [host |-> TRUE, events |-> <<>>, cache |-> ev_cache]
    ELSE [host |-> TRUE, events |-> ev_feed,
          cache |-> IF ev_caching /\ ev_feed # <<>> THEN Some(ev_feed) ELSE ev_cache]

\* whether the next host call may fail
EventsOutcomes == IF ev_failures < MaxFailures THEN BOOLEAN ELSE {FALSE}

EventsWeekEnd(current) == Min(current + WeekSpan, ev_end)

EventsInit ==
    /\ ev_end \in 0..MaxEventsEnd
    /\ ev_threshold \in 1..MaxThreshold
    /\ ev_feed \in Feeds
    /\ ev_caching \in BOOLEAN
    /\ ev_cache = Missing
    /\ ev_pc = "week"
    /\ ev_cur = 1
    /\ ev_day = 0
    /\ ev_daily = <<>>
    /\ ev_all = <<>>
    /\ ev_result = <<>>
    /\ ev_calls = <<>>
    /\ ev_failures = 0

\* one turn of fetch_period's loop: _fetch_range on the next window
EventsFetchWeek ==
    /\ ev_pc = "week"
    /\ ev_cur <= ev_end
    /\ \E fails \in EventsOutcomes :
        LET got == EventsApi(fails)
            week_end == EventsWeekEnd(ev_cur)
            filtered == FilterFeed(got.events, ev_cur, week_end)
        IN  /\ ev_cache' = got.cache
            /\ ev_failures' = ev_failures + (IF got.host /\ fails THEN 1 ELSE 0)
            /\ ev_calls' = Append(ev_calls,
                  [mode |-> "week", start |-> ev_cur, end |-> week_end,
                   host |-> got.host, events |-> filtered])
            /\ IF Len(filtered) >= ev_threshold
               THEN /\ ev_pc' = "days"
                    /\ ev_day' = ev_cur
                    /\ ev_daily' = <<>>
                    /\ UNCHANGED <<ev_cur, ev_all>>
               ELSE /\ ev_all' = ev_all \o filtered
                    /\ ev_cur' = week_end + 1
                    /\ UNCHANGED <<ev_pc, ev_day, ev_daily>>
    /\ UNCHANGED <<ev_end, ev_threshold, ev_feed, ev_caching, ev_result>>

\* one turn of _fetch_week_by_days' loop: _fetch_range on one day
EventsFetchDay ==
    /\ ev_pc = "days"
    /\ ev_day <= EventsWeekEnd(ev_cur)
    /\ \E fails \in EventsOutcomes :
        LET got == EventsApi(fails)
            filtered == FilterFeed(got.events, ev_day, ev_day)
            daily == ev_daily \o filtered
        IN  /\ ev_cache' = got.cache
            /\ ev_failures' = ev_failures + (IF got.host /\ fails THEN 1 ELSE 0)
            /\ ev_calls' = Append(ev_calls,
                  [mode |-> "day", start |-> ev_day, end |-> ev_day,
                   host |-> got.host, events |-> filtered])
            /\ ev_daily' = daily
            /\ ev_day' = ev_day + 1
            /\ IF ev_day + 1 <= EventsWeekEnd(ev_cur)
               THEN UNCHANGED <<ev_pc, ev_cur, ev_all>>
               ELSE /\ ev_all' = ev_all \o daily
                    /\ ev_cur' = EventsWeekEnd(ev_cur) + 1
                    /\ ev_pc' = "week"
    /\ UNCHANGED <<ev_end, ev_threshold, ev_feed, ev_caching, ev_result>>

\* the week loop is exhausted: return self._deduplicate(all_events)
EventsReturn ==
    /\ ev_pc = "week"
    /\ ev_cur > ev_end
    /\ ev_result' = EventsDedupLoop(ev_all, {}, <<>>)
    /\ ev_pc' = "done"
    /\ UNCHANGED <<ev_end, ev_threshold, ev_feed, ev_caching, ev_cache, ev_cur,
                   ev_day, ev_daily, ev_all, ev_calls, ev_failures>>

\* no events are being fetched
EventsIdle ==
    /\ ev_end = 0
    /\ ev_threshold = 1
    /\ ev_feed = <<>>
    /\ ev_caching = FALSE
    /\ ev_cache = Missing
    /\ ev_pc = "idle"
    /\ ev_cur = 1
    /\ ev_day = 0
    /\ ev_daily = <<>>
    /\ ev_all = <<>>
    /\ ev_result = <<>>
    /\ ev_calls = <<>>
    /\ ev_failures = 0

\* the _fetch_range calls that asked the host for the feed
EvHostCalls == SelectSeq(ev_calls, LAMBDA c : c.host)

\* C27: one fetch_period invocation of EventsFetcher asks the host for the
\* feed once, however many windows the range has, and the events of every
\* window are that one result filtered by the dates of the window.
C27_SingleBulkCall ==
    /\ Len(EvHostCalls) <= 1
    /\ \A i \in 1..Len(ev_calls) :
          ev_calls[i].events \in
              { FilterFeed(r, ev_calls[i].start, ev_calls[i].end) :
                  r \in {<<>>, ev_feed} }

\* ------------------------------------------- fetch phase: the reviews list
VARIABLES
    rv_host,            \* the PRs of the host: who wrote each, and its reviews
    rv_pc,              \* "prs" | "reviewed" | "reviews" | "done"
    rv_pull_requests,   \* _fetch_all_data's pull_requests (authored by the user)
    rv_reviewed_prs,    \* _fetch_all_data's reviewed_prs
    rv_i,               \* fetch_reviews_for_prs' position in prs
    rv_reviews,         \* fetch_reviews_for_prs' all_reviews
    rv_failures         \* host calls that failed

reviewVars == <<rv_host, rv_pc, rv_pull_requests, rv_reviewed_prs, rv_i, rv_reviews,
                rv_failures>>

\* the period reviews are fetched for: start_date and end_date
ReviewPeriod == <<1, 3>>

\* a review on the host: id, login of the reviewer, day of submission
HostReview(id, login, d) ==
    [ id |-> id, user |-> login, submitted_at |-> IsoTimestamp(d), state |-> "COMMENTED" ]

\* the reviews one PR may have: up to MaxPrReviews, by the user or by someone
\* else, inside the period (day 2) or after it (day 4)
HostReviewLists(number) ==
    UNION { { [i \in 1..n |-> HostReview(10 * number + i, who[i], day[i])] :
                who \in [1..n -> {"me", "other"}], day \in [1..n -> {2, 4}] } :
            n \in 0..MaxPrReviews }

\* a PR of the host; a PR author can review the own PR with comments
HostPr(number, author, reviews) ==
    [ number |-> number, repository |-> "org/a", author |-> author, reviews |-> reviews ]

\* the PR record the fetchers build from a search item
PrOfHost(pr) == [ number |-> pr.number, repository |-> pr.repository ]

\* search author:{username}: the PRs the user wrote
AuthoredPrs == SelectSeq(rv_host, LAMBDA pr : pr.author = "me")

\* search reviewed-by:{username}: the PRs holding a review of the user
ReviewedByUser ==
    SelectSeq(rv_host, LAMBDA pr : \E i \in 1..Len(pr.reviews) : pr.reviews[i].user = "me")

RECURSIVE MapPrs(_)
MapPrs(prs) == IF prs = <<>> THEN <<>> ELSE <<PrOfHost(Head(prs))>> \o MapPrs(Tail(prs))

\* the review record fetch_reviews_for_prs appends
ReviewRecord(review, pr) ==
    [ id |-> review.id, pr_number |-> pr.number, repository |-> pr.repository,
      state |-> review.state, submitted_at |-> review.submitted_at,
      user |-> review.user ]

\* fetch_reviews_for_prs: the reviews of one PR by the user inside the period
RECURSIVE KeptReviews(_, _)
KeptReviews(reviews, pr) ==
    IF reviews = <<>> THEN <<>>
    ELSE LET review == Head(reviews)
             submitted_at == Prefix10(review.submitted_at)
             keep == /\ submitted_at # EmptyStr
                     /\ StrBetween(IsoFormat(ReviewPeriod[1]), submitted_at,
                                   IsoFormat(ReviewPeriod[2]))
                     /\ review.user = "me"
         IN  (IF keep THEN <<ReviewRecord(review, pr)>> ELSE <<>>)
             \o KeptReviews(Tail(reviews), pr)

\* ReviewsFetcher._fetch_pr_reviews: the reviews of the PR, or [] on a failure
FetchPrReviews(pr, fails) ==
    IF fails THEN <<>>
    ELSE LET found == SelectSeq(rv_host, LAMBDA h : h.number = pr.number)
         IN  IF found = <<>> THEN <<>> ELSE found[1].reviews

\* orchestrator: all_prs_for_reviews = pull_requests + reviewed_prs
AllPrsForReviews == rv_pull_requests \o rv_reviewed_prs

ReviewsInit ==
    /\ rv_host \in { <<HostPr(1, a1, r1), HostPr(2, "other", r2)>> :
                        a1 \in {"me", "other"},
                        r1 \in HostReviewLists(1), r2 \in HostReviewLists(2) }
    /\ rv_pc = "prs"
    /\ rv_pull_requests = <<>>
    /\ rv_reviewed_prs = <<>>
    /\ rv_i = 1
    /\ rv_reviews = <<>>
    /\ rv_failures = 0

\* _fetch_all_data: the authored PRs, fetched and merged
FetchPullRequests ==
    /\ rv_pc = "prs"
    /\ rv_pull_requests' = MapPrs(AuthoredPrs)
    /\ rv_pc' = "reviewed"
    /\ UNCHANGED <<rv_host, rv_reviewed_prs, rv_i, rv_reviews, rv_failures>>

\* prs_fetcher.fetch_reviewed_prs(start_date, end_date): the search result, or
\* [] when the host call fails
FetchReviewedPrs ==
    /\ rv_pc = "reviewed"
    /\ \E fails \in (IF rv_failures < MaxFailures THEN BOOLEAN ELSE {FALSE}) :
          /\ rv_reviewed_prs' = IF fails THEN <<>> ELSE MapPrs(ReviewedByUser)
          /\ rv_failures' = rv_failures + (IF fails THEN 1 ELSE 0)
    /\ rv_pc' = "reviews"
    /\ UNCHANGED <<rv_host, rv_pull_requests, rv_i, rv_reviews>>

\* one turn of fetch_reviews_for_prs' loop over pull_requests + reviewed_prs
FetchReviewsForPr ==
    /\ rv_pc = "reviews"
    /\ rv_i <= Len(AllPrsForReviews)
    /\ \E fails \in (IF rv_failures < MaxFailures THEN BOOLEAN ELSE {FALSE}) :
          LET pr == AllPrsForReviews[rv_i]
          IN  /\ rv_reviews' = rv_reviews \o KeptReviews(FetchPrReviews(pr, fails), pr)
              /\ rv_failures' = rv_failures + (IF fails THEN 1 ELSE 0)
    /\ rv_i' = rv_i + 1
    /\ UNCHANGED <<rv_host, rv_pc, rv_pull_requests, rv_reviewed_prs>>

\* fetch_reviews_for_prs returns all_reviews
ReturnReviews ==
    /\ rv_pc = "reviews"
    /\ rv_i > Len(AllPrsForReviews)
    /\ rv_pc' = "done"
    /\ UNCHANGED <<rv_host, rv_pull_requests, rv_reviewed_prs, rv_i, rv_reviews,
                   rv_failures>>

\* no reviews are being fetched
ReviewsIdle ==
    /\ rv_host = <<>>
    /\ rv_pc = "idle"
    /\ rv_pull_requests = <<>>
    /\ rv_reviewed_prs = <<>>
    /\ rv_i = 1
    /\ rv_reviews = <<>>
    /\ rv_failures = 0

\* C29: the reviews list of the fetch phase holds every review id at most
\* once, also when a PR is both among the authored PRs and in the reviewed-PR
\* search result.
C29_ReviewIdsUnique ==
    \A i, j \in 1..Len(rv_reviews) :
        i # j => rv_reviews[i].id # rv_reviews[j].id

vars == <<fetchVars, probeVars, aggVars, prsVars, commitVars, commentVars, summaryVars, prMetricVars, reviewMetricVars, engagementVars, allMetricVars, scoreVars, clientVars, periodVars, dedupVars, eventVars, reviewVars>>

\* fetch_period is not running
FetchIdle ==
    /\ f_start = 0
    /\ f_end = 0
    /\ f_threshold = 0
    /\ f_pc = "idle"
    /\ f_cur = 0
    /\ f_day = 0
    /\ week_events = <<>>
    /\ daily_events = <<>>
    /\ all_events = <<>>
    /\ f_result = <<>>
    /\ f_log = <<>>
    /\ f_windows = <<>>


InitFetch == FetchInit /\ ProbeIdle /\ AggIdle /\ PrsIdle /\ CommitsIdle /\ CommentsIdle /\ SummaryIdle /\ PrMetricsIdle /\ ReviewMetricsIdle /\ EngagementIdle /\ AllMetricsIdle /\ ScoreIdle /\ ClientIdle /\ PeriodIdle /\ DedupIdle /\ EventsIdle /\ ReviewsIdle

NextFetch ==
    \/ FetchWeek /\ UNCHANGED <<probeVars, aggVars, prsVars, commitVars, commentVars, summaryVars, prMetricVars, reviewMetricVars, engagementVars, allMetricVars, scoreVars, clientVars, periodVars, dedupVars, eventVars, reviewVars>>
    \/ FetchDay /\ UNCHANGED <<probeVars, aggVars, prsVars, commitVars, commentVars, summaryVars, prMetricVars, reviewMetricVars, engagementVars, allMetricVars, scoreVars, clientVars, periodVars, dedupVars, eventVars, reviewVars>>
    \/ FetchReturn /\ UNCHANGED <<probeVars, aggVars, prsVars, commitVars, commentVars, summaryVars, prMetricVars, reviewMetricVars, engagementVars, allMetricVars, scoreVars, clientVars, periodVars, dedupVars, eventVars, reviewVars>>

SpecFetch == InitFetch /\ [][NextFetch]_vars

\* fetch_period is sequential code: whenever it can take a step it does
SpecFetchLive == InitFetch /\ [][NextFetch]_vars /\ WF_vars(NextFetch)

InitProbe == ProbeInit /\ FetchIdle /\ AggIdle /\ PrsIdle /\ CommitsIdle /\ CommentsIdle /\ SummaryIdle /\ PrMetricsIdle /\ ReviewMetricsIdle /\ EngagementIdle /\ AllMetricsIdle /\ ScoreIdle /\ ClientIdle /\ PeriodIdle /\ DedupIdle /\ EventsIdle /\ ReviewsIdle

NextProbe ==
    \/ ProbeReviews /\ UNCHANGED <<fetchVars, aggVars, prsVars, commitVars, commentVars, summaryVars, prMetricVars, reviewMetricVars, engagementVars, allMetricVars, scoreVars, clientVars, periodVars, dedupVars, eventVars, reviewVars>>
    \/ ProbeComments /\ UNCHANGED <<fetchVars, aggVars, prsVars, commitVars, commentVars, summaryVars, prMetricVars, reviewMetricVars, engagementVars, allMetricVars, scoreVars, clientVars, periodVars, dedupVars, eventVars, reviewVars>>
    \/ ProbeCommits /\ UNCHANGED <<fetchVars, aggVars, prsVars, commitVars, commentVars, summaryVars, prMetricVars, reviewMetricVars, engagementVars, allMetricVars, scoreVars, clientVars, periodVars, dedupVars, eventVars, reviewVars>>

SpecProbe == InitProbe /\ [][NextProbe]_vars

InitAgg == AggInit /\ FetchIdle /\ ProbeIdle /\ PrsIdle /\ CommitsIdle /\ CommentsIdle /\ SummaryIdle /\ PrMetricsIdle /\ ReviewMetricsIdle /\ EngagementIdle /\ AllMetricsIdle /\ ScoreIdle /\ ClientIdle /\ PeriodIdle /\ DedupIdle /\ EventsIdle /\ ReviewsIdle

NextAgg ==
    \/ AggSupply /\ UNCHANGED <<fetchVars, probeVars, prsVars, commitVars, commentVars, summaryVars, prMetricVars, reviewMetricVars, engagementVars, allMetricVars, scoreVars, clientVars, periodVars, dedupVars, eventVars, reviewVars>>
    \/ Aggregate /\ UNCHANGED <<fetchVars, probeVars, prsVars, commitVars, commentVars, summaryVars, prMetricVars, reviewMetricVars, engagementVars, allMetricVars, scoreVars, clientVars, periodVars, dedupVars, eventVars, reviewVars>>

SpecAgg == InitAgg /\ [][NextAgg]_vars

InitPrs == PrsInit /\ FetchIdle /\ ProbeIdle /\ AggIdle /\ CommitsIdle /\ CommentsIdle /\ SummaryIdle /\ PrMetricsIdle /\ ReviewMetricsIdle /\ EngagementIdle /\ AllMetricsIdle /\ ScoreIdle /\ ClientIdle /\ PeriodIdle /\ DedupIdle /\ EventsIdle /\ ReviewsIdle

NextPrs ==
    \/ FetchCreatedPrs /\ UNCHANGED <<fetchVars, probeVars, aggVars, commitVars, commentVars, summaryVars, prMetricVars, reviewMetricVars, engagementVars, allMetricVars, scoreVars, clientVars, periodVars, dedupVars, eventVars, reviewVars>>
    \/ FetchUpdatedPrs /\ UNCHANGED <<fetchVars, probeVars, aggVars, commitVars, commentVars, summaryVars, prMetricVars, reviewMetricVars, engagementVars, allMetricVars, scoreVars, clientVars, periodVars, dedupVars, eventVars, reviewVars>>
    \/ FetchOpenPrsWithActivity /\ UNCHANGED <<fetchVars, probeVars, aggVars, commitVars, commentVars, summaryVars, prMetricVars, reviewMetricVars, engagementVars, allMetricVars, scoreVars, clientVars, periodVars, dedupVars, eventVars, reviewVars>>
    \/ MergeAuthoredPrs /\ UNCHANGED <<fetchVars, probeVars, aggVars, commitVars, commentVars, summaryVars, prMetricVars, reviewMetricVars, engagementVars, allMetricVars, scoreVars, clientVars, periodVars, dedupVars, eventVars, reviewVars>>
    \/ EnrichPrs /\ UNCHANGED <<fetchVars, probeVars, aggVars, commitVars, commentVars, summaryVars, prMetricVars, reviewMetricVars, engagementVars, allMetricVars, scoreVars, clientVars, periodVars, dedupVars, eventVars, reviewVars>>
    \/ HandPrsToAggregator /\ UNCHANGED <<fetchVars, probeVars, commitVars, commentVars, summaryVars, prMetricVars, reviewMetricVars, engagementVars, allMetricVars, scoreVars, clientVars, periodVars, dedupVars, eventVars, reviewVars>>
    \/ Aggregate /\ UNCHANGED <<fetchVars, probeVars, prsVars, commitVars, commentVars, summaryVars, prMetricVars, reviewMetricVars, engagementVars, allMetricVars, scoreVars, clientVars, periodVars, dedupVars, eventVars, reviewVars>>

SpecPrs == InitPrs /\ [][NextPrs]_vars

InitCommits ==
    CommitsInit /\ FetchIdle /\ ProbeIdle /\ AggIdle /\ PrsIdle /\ CommentsIdle /\ SummaryIdle /\ PrMetricsIdle /\ ReviewMetricsIdle /\ EngagementIdle /\ AllMetricsIdle /\ ScoreIdle /\ ClientIdle /\ PeriodIdle /\ DedupIdle /\ EventsIdle /\ ReviewsIdle

NextCommits ==
    \/ FetchCommits /\ UNCHANGED <<fetchVars, probeVars, aggVars, prsVars, commentVars, summaryVars, prMetricVars, reviewMetricVars, engagementVars, allMetricVars, scoreVars, clientVars, periodVars, dedupVars, eventVars, reviewVars>>
    \/ FetchCommitsFromPr /\ UNCHANGED <<fetchVars, probeVars, aggVars, prsVars, commentVars, summaryVars, prMetricVars, reviewMetricVars, engagementVars, allMetricVars, scoreVars, clientVars, periodVars, dedupVars, eventVars, reviewVars>>
    \/ MergeAllCommits /\ UNCHANGED <<fetchVars, probeVars, aggVars, prsVars, commentVars, summaryVars, prMetricVars, reviewMetricVars, engagementVars, allMetricVars, scoreVars, clientVars, periodVars, dedupVars, eventVars, reviewVars>>

SpecCommits == InitCommits /\ [][NextCommits]_vars

InitComments ==
    CommentsInit /\ FetchIdle /\ ProbeIdle /\ AggIdle /\ PrsIdle /\ CommitsIdle /\ SummaryIdle /\ PrMetricsIdle /\ ReviewMetricsIdle /\ EngagementIdle /\ AllMetricsIdle /\ ScoreIdle /\ ClientIdle /\ PeriodIdle /\ DedupIdle /\ EventsIdle /\ ReviewsIdle

NextComments ==
    \/ FetchEvents /\ UNCHANGED <<fetchVars, probeVars, aggVars, prsVars, commitVars, summaryVars, prMetricVars, reviewMetricVars, engagementVars, allMetricVars, scoreVars, clientVars, periodVars, dedupVars, eventVars, reviewVars>>
    \/ FetchApiComments /\ UNCHANGED <<fetchVars, probeVars, aggVars, prsVars, commitVars, summaryVars, prMetricVars, reviewMetricVars, engagementVars, allMetricVars, scoreVars, clientVars, periodVars, dedupVars, eventVars, reviewVars>>
    \/ MergeAllComments /\ UNCHANGED <<fetchVars, probeVars, aggVars, prsVars, commitVars, summaryVars, prMetricVars, reviewMetricVars, engagementVars, allMetricVars, scoreVars, clientVars, periodVars, dedupVars, eventVars, reviewVars>>

SpecComments == InitComments /\ [][NextComments]_vars

InitSummary ==
    SummaryInit /\ FetchIdle /\ ProbeIdle /\ AggIdle /\ PrsIdle /\ CommitsIdle
    /\ CommentsIdle /\ PrMetricsIdle /\ ReviewMetricsIdle /\ EngagementIdle /\ AllMetricsIdle /\ ScoreIdle /\ ClientIdle /\ PeriodIdle /\ DedupIdle /\ EventsIdle /\ ReviewsIdle

NextSummary ==
    \/ SummarySupply
         /\ UNCHANGED <<fetchVars, probeVars, aggVars, prsVars, commitVars, commentVars, prMetricVars, reviewMetricVars, engagementVars, allMetricVars, scoreVars, clientVars, periodVars, dedupVars, eventVars, reviewVars>>
    \/ GetSummary
         /\ UNCHANGED <<fetchVars, probeVars, aggVars, prsVars, commitVars, commentVars, prMetricVars, reviewMetricVars, engagementVars, allMetricVars, scoreVars, clientVars, periodVars, dedupVars, eventVars, reviewVars>>

SpecSummary == InitSummary /\ [][NextSummary]_vars

InitPrMetrics ==
    PrMetricsInit /\ FetchIdle
    /\ ProbeIdle /\ AggIdle /\ PrsIdle /\ CommitsIdle /\ CommentsIdle /\ SummaryIdle /\ ReviewMetricsIdle /\ EngagementIdle /\ AllMetricsIdle /\ ScoreIdle /\ ClientIdle /\ PeriodIdle /\ DedupIdle /\ EventsIdle /\ ReviewsIdle

NextPrMetrics ==
    \/ SupplyMetricPr
         /\ UNCHANGED <<fetchVars, probeVars, aggVars, prsVars, commitVars, commentVars, summaryVars, reviewMetricVars, engagementVars, allMetricVars, scoreVars, clientVars, periodVars, dedupVars, eventVars, reviewVars>>
    \/ SupplyReviewOnAuthoredPr
         /\ UNCHANGED <<fetchVars, probeVars, aggVars, prsVars, commitVars, commentVars, summaryVars, reviewMetricVars, engagementVars, allMetricVars, scoreVars, clientVars, periodVars, dedupVars, eventVars, reviewVars>>
    \/ SupplyOwnReview
         /\ UNCHANGED <<fetchVars, probeVars, aggVars, prsVars, commitVars, commentVars, summaryVars, reviewMetricVars, engagementVars, allMetricVars, scoreVars, clientVars, periodVars, dedupVars, eventVars, reviewVars>>
    \/ CalculatePrMetricsCall
         /\ UNCHANGED <<fetchVars, probeVars, aggVars, prsVars, commitVars, commentVars, summaryVars, reviewMetricVars, engagementVars, allMetricVars, scoreVars, clientVars, periodVars, dedupVars, eventVars, reviewVars>>

SpecPrMetrics == InitPrMetrics /\ [][NextPrMetrics]_vars

InitReviewMetrics ==
    ReviewMetricsInit /\ FetchIdle
    /\ ProbeIdle /\ AggIdle /\ PrsIdle /\ CommitsIdle /\ CommentsIdle /\ SummaryIdle /\ PrMetricsIdle /\ EngagementIdle /\ AllMetricsIdle /\ ScoreIdle /\ ClientIdle /\ PeriodIdle /\ DedupIdle /\ EventsIdle /\ ReviewsIdle

NextReviewMetrics ==
    \/ SupplyReviewedPrs
         /\ UNCHANGED <<fetchVars, probeVars, aggVars, prsVars, commitVars, commentVars, summaryVars, prMetricVars, engagementVars, allMetricVars, scoreVars, clientVars, periodVars, dedupVars, eventVars, reviewVars>>
    \/ SupplyReview
         /\ UNCHANGED <<fetchVars, probeVars, aggVars, prsVars, commitVars, commentVars, summaryVars, prMetricVars, engagementVars, allMetricVars, scoreVars, clientVars, periodVars, dedupVars, eventVars, reviewVars>>
    \/ CalculateReviewMetricsCall
         /\ UNCHANGED <<fetchVars, probeVars, aggVars, prsVars, commitVars, commentVars, summaryVars, prMetricVars, engagementVars, allMetricVars, scoreVars, clientVars, periodVars, dedupVars, eventVars, reviewVars>>

SpecReviewMetrics == InitReviewMetrics /\ [][NextReviewMetrics]_vars

InitEngagement ==
    EngagementInit /\ FetchIdle
    /\ ProbeIdle /\ AggIdle /\ PrsIdle /\ CommitsIdle /\ CommentsIdle /\ SummaryIdle /\ PrMetricsIdle /\ ReviewMetricsIdle /\ AllMetricsIdle /\ ScoreIdle /\ ClientIdle /\ PeriodIdle /\ DedupIdle /\ EventsIdle /\ ReviewsIdle

NextEngagement ==
    \/ SupplyEngagementCommit
         /\ UNCHANGED <<fetchVars, probeVars, aggVars, prsVars, commitVars, commentVars, summaryVars, prMetricVars, reviewMetricVars, allMetricVars, scoreVars, clientVars, periodVars, dedupVars, eventVars, reviewVars>>
    \/ SupplyEngagementComment
         /\ UNCHANGED <<fetchVars, probeVars, aggVars, prsVars, commitVars, commentVars, summaryVars, prMetricVars, reviewMetricVars, allMetricVars, scoreVars, clientVars, periodVars, dedupVars, eventVars, reviewVars>>
    \/ CalculateEngagementMetricsCall
         /\ UNCHANGED <<fetchVars, probeVars, aggVars, prsVars, commitVars, commentVars, summaryVars, prMetricVars, reviewMetricVars, allMetricVars, scoreVars, clientVars, periodVars, dedupVars, eventVars, reviewVars>>

SpecEngagement == InitEngagement /\ [][NextEngagement]_vars

InitAllMetrics ==
    AllMetricsInit /\ FetchIdle
    /\ ProbeIdle /\ AggIdle /\ PrsIdle /\ CommitsIdle /\ CommentsIdle /\ SummaryIdle /\ PrMetricsIdle /\ ReviewMetricsIdle /\ EngagementIdle /\ ScoreIdle /\ ClientIdle /\ PeriodIdle /\ DedupIdle /\ EventsIdle /\ ReviewsIdle

NextAllMetrics ==
    \/ ConfigureMetrics
         /\ UNCHANGED <<fetchVars, probeVars, aggVars, prsVars, commitVars, commentVars, summaryVars, prMetricVars, reviewMetricVars, engagementVars, scoreVars, clientVars, periodVars, dedupVars, eventVars, reviewVars>>
    \/ SupplyMetricRecord
         /\ UNCHANGED <<fetchVars, probeVars, aggVars, prsVars, commitVars, commentVars, summaryVars, prMetricVars, reviewMetricVars, engagementVars, scoreVars, clientVars, periodVars, dedupVars, eventVars, reviewVars>>
    \/ CallEachCalculation
         /\ UNCHANGED <<fetchVars, probeVars, aggVars, prsVars, commitVars, commentVars, summaryVars, prMetricVars, reviewMetricVars, engagementVars, scoreVars, clientVars, periodVars, dedupVars, eventVars, reviewVars>>
    \/ CalculateAllCall
         /\ UNCHANGED <<fetchVars, probeVars, aggVars, prsVars, commitVars, commentVars, summaryVars, prMetricVars, reviewMetricVars, engagementVars, scoreVars, clientVars, periodVars, dedupVars, eventVars, reviewVars>>

SpecAllMetrics == InitAllMetrics /\ [][NextAllMetrics]_vars

InitScore ==
    ScoreInit /\ FetchIdle
    /\ ProbeIdle /\ AggIdle /\ PrsIdle /\ CommitsIdle /\ CommentsIdle /\ SummaryIdle /\ PrMetricsIdle /\ ReviewMetricsIdle /\ EngagementIdle /\ AllMetricsIdle /\ ClientIdle /\ PeriodIdle /\ DedupIdle /\ EventsIdle /\ ReviewsIdle

NextScore ==
    \/ SupplyScoreReview
         /\ UNCHANGED <<fetchVars, probeVars, aggVars, prsVars, commitVars, commentVars, summaryVars, prMetricVars, reviewMetricVars, engagementVars, allMetricVars, clientVars, periodVars, dedupVars, eventVars, reviewVars>>
    \/ SupplyScoreComment
         /\ UNCHANGED <<fetchVars, probeVars, aggVars, prsVars, commitVars, commentVars, summaryVars, prMetricVars, reviewMetricVars, engagementVars, allMetricVars, clientVars, periodVars, dedupVars, eventVars, reviewVars>>
    \/ SupplyScoreReaction
         /\ UNCHANGED <<fetchVars, probeVars, aggVars, prsVars, commitVars, commentVars, summaryVars, prMetricVars, reviewMetricVars, engagementVars, allMetricVars, clientVars, periodVars, dedupVars, eventVars, reviewVars>>
    \/ CalculateScoreCall
         /\ UNCHANGED <<fetchVars, probeVars, aggVars, prsVars, commitVars, commentVars, summaryVars, prMetricVars, reviewMetricVars, engagementVars, allMetricVars, clientVars, periodVars, dedupVars, eventVars, reviewVars>>

SpecScore == InitScore /\ [][NextScore]_vars

InitClient ==
    ClientInit /\ FetchIdle
    /\ ProbeIdle /\ AggIdle /\ PrsIdle /\ CommitsIdle /\ CommentsIdle /\ SummaryIdle /\ PrMetricsIdle /\ ReviewMetricsIdle /\ EngagementIdle /\ AllMetricsIdle /\ ScoreIdle /\ PeriodIdle /\ DedupIdle /\ EventsIdle /\ ReviewsIdle

NextClient ==
    \/ CreateClient
         /\ UNCHANGED <<fetchVars, probeVars, aggVars, prsVars, commitVars, commentVars, summaryVars, prMetricVars, reviewMetricVars, engagementVars, allMetricVars, scoreVars, periodVars, dedupVars, eventVars, reviewVars>>
    \/ Api
         /\ UNCHANGED <<fetchVars, probeVars, aggVars, prsVars, commitVars, commentVars, summaryVars, prMetricVars, reviewMetricVars, engagementVars, allMetricVars, scoreVars, periodVars, dedupVars, eventVars, reviewVars>>
    \/ Search
         /\ UNCHANGED <<fetchVars, probeVars, aggVars, prsVars, commitVars, commentVars, summaryVars, prMetricVars, reviewMetricVars, engagementVars, allMetricVars, scoreVars, periodVars, dedupVars, eventVars, reviewVars>>
    \/ CallerWorks
         /\ UNCHANGED <<fetchVars, probeVars, aggVars, prsVars, commitVars, commentVars, summaryVars, prMetricVars, reviewMetricVars, engagementVars, allMetricVars, scoreVars, periodVars, dedupVars, eventVars, reviewVars>>

SpecClient == InitClient /\ [][NextClient]_vars

InitPeriod ==
    PeriodInit /\ FetchIdle
    /\ ProbeIdle /\ AggIdle /\ PrsIdle /\ CommitsIdle /\ CommentsIdle /\ SummaryIdle /\ PrMetricsIdle /\ ReviewMetricsIdle /\ EngagementIdle /\ AllMetricsIdle /\ ScoreIdle /\ ClientIdle /\ DedupIdle /\ EventsIdle /\ ReviewsIdle

NextPeriod ==
    \/ SupplyPeriod
         /\ UNCHANGED <<fetchVars, probeVars, aggVars, prsVars, commitVars, commentVars, summaryVars, prMetricVars, reviewMetricVars, engagementVars, allMetricVars, scoreVars, clientVars, dedupVars, eventVars, reviewVars>>
    \/ GetPeriodRangeCall
         /\ UNCHANGED <<fetchVars, probeVars, aggVars, prsVars, commitVars, commentVars, summaryVars, prMetricVars, reviewMetricVars, engagementVars, allMetricVars, scoreVars, clientVars, dedupVars, eventVars, reviewVars>>

SpecPeriod == InitPeriod /\ [][NextPeriod]_vars

InitDedup ==
    DedupInit /\ FetchIdle
    /\ ProbeIdle /\ AggIdle /\ PrsIdle /\ CommitsIdle /\ CommentsIdle /\ SummaryIdle /\ PrMetricsIdle /\ ReviewMetricsIdle /\ EngagementIdle /\ AllMetricsIdle /\ ScoreIdle /\ ClientIdle /\ PeriodIdle /\ EventsIdle /\ ReviewsIdle

NextDedup ==
    \/ SupplyDedupRecord
         /\ UNCHANGED <<fetchVars, probeVars, aggVars, prsVars, commitVars, commentVars, summaryVars, prMetricVars, reviewMetricVars, engagementVars, allMetricVars, scoreVars, clientVars, periodVars, eventVars, reviewVars>>
    \/ DeduplicateCall
         /\ UNCHANGED <<fetchVars, probeVars, aggVars, prsVars, commitVars, commentVars, summaryVars, prMetricVars, reviewMetricVars, engagementVars, allMetricVars, scoreVars, clientVars, periodVars, eventVars, reviewVars>>
    \/ DeduplicateAgain
         /\ UNCHANGED <<fetchVars, probeVars, aggVars, prsVars, commitVars, commentVars, summaryVars, prMetricVars, reviewMetricVars, engagementVars, allMetricVars, scoreVars, clientVars, periodVars, eventVars, reviewVars>>

SpecDedup == InitDedup /\ [][NextDedup]_vars

InitEvents ==
    EventsInit /\ FetchIdle
    /\ ProbeIdle /\ AggIdle /\ PrsIdle /\ CommitsIdle /\ CommentsIdle /\ SummaryIdle /\ PrMetricsIdle /\ ReviewMetricsIdle /\ EngagementIdle /\ AllMetricsIdle /\ ScoreIdle /\ ClientIdle /\ PeriodIdle /\ DedupIdle /\ ReviewsIdle

NextEvents ==
    \/ EventsFetchWeek
         /\ UNCHANGED <<fetchVars, probeVars, aggVars, prsVars, commitVars, commentVars, summaryVars, prMetricVars, reviewMetricVars, engagementVars, allMetricVars, scoreVars, clientVars, periodVars, dedupVars, reviewVars>>
    \/ EventsFetchDay
         /\ UNCHANGED <<fetchVars, probeVars, aggVars, prsVars, commitVars, commentVars, summaryVars, prMetricVars, reviewMetricVars, engagementVars, allMetricVars, scoreVars, clientVars, periodVars, dedupVars, reviewVars>>
    \/ EventsReturn
         /\ UNCHANGED <<fetchVars, probeVars, aggVars, prsVars, commitVars, commentVars, summaryVars, prMetricVars, reviewMetricVars, engagementVars, allMetricVars, scoreVars, clientVars, periodVars, dedupVars, reviewVars>>

SpecEvents == InitEvents /\ [][NextEvents]_vars

InitReviews ==
    ReviewsInit /\ FetchIdle
    /\ ProbeIdle /\ AggIdle /\ PrsIdle /\ CommitsIdle /\ CommentsIdle /\ SummaryIdle /\ PrMetricsIdle /\ ReviewMetricsIdle /\ EngagementIdle /\ AllMetricsIdle /\ ScoreIdle /\ ClientIdle /\ PeriodIdle /\ DedupIdle /\ EventsIdle

NextReviews ==
    \/ FetchPullRequests
         /\ UNCHANGED <<fetchVars, probeVars, aggVars, prsVars, commitVars, commentVars, summaryVars, prMetricVars, reviewMetricVars, engagementVars, allMetricVars, scoreVars, clientVars, periodVars, dedupVars, eventVars>>
    \/ FetchReviewedPrs
         /\ UNCHANGED <<fetchVars, probeVars, aggVars, prsVars, commitVars, commentVars, summaryVars, prMetricVars, reviewMetricVars, engagementVars, allMetricVars, scoreVars, clientVars, periodVars, dedupVars, eventVars>>
    \/ FetchReviewsForPr
         /\ UNCHANGED <<fetchVars, probeVars, aggVars, prsVars, commitVars, commentVars, summaryVars, prMetricVars, reviewMetricVars, engagementVars, allMetricVars, scoreVars, clientVars, periodVars, dedupVars, eventVars>>
    \/ ReturnReviews
         /\ UNCHANGED <<fetchVars, probeVars, aggVars, prsVars, commitVars, commentVars, summaryVars, prMetricVars, reviewMetricVars, engagementVars, allMetricVars, scoreVars, clientVars, periodVars, dedupVars, eventVars>>

SpecReviews == InitReviews /\ [][NextReviews]_vars

====
